---------------------------- MODULE Spec2Model ----------------------------
(***************************************************************************)
(* A model of the CPL front end: the scanner (src/lang/lexer.rs), the      *)
(* recursive-descent parser (src/lang/parser.rs) and the semantic          *)
(* analyzer (src/lang/semantic_analyzer.rs).                               *)
(*                                                                         *)
(* A source text is a sequence of one-character strings.  A token is a     *)
(* record [token_type, lexeme, literal, line, column]; lexeme is a         *)
(* sequence of characters and literal is <<>> for None and <<s>> for       *)
(* Some(s).  line and column are u32 in the code; the bounded inputs keep  *)
(* them far below 2^32, so they are plain naturals here.                   *)
(***************************************************************************)
EXTENDS Naturals, Sequences, FiniteSets, TLC

VARIABLES
    source,      \* tokenize: the source text
    pos,         \* tokenize: index of the character `chars.peek()` returns
    tokens,      \* tokenize: the token vector under construction
    line,        \* tokenize: the line counter
    column,      \* tokenize: the column counter
    pc,          \* tokenize: "idle", "scan", "done" (returned) or "panic"
    spans,       \* history: spans[i].from is the iterator position at which
                 \* the scan of tokens[i] began, spans[i].to the position
                 \* after it (both Len(source)+1 for the final Eof)
    p_tokens,    \* Parser.tokens
    current,     \* Parser.current
    statements,  \* Parser::parse: the statement vector under construction
    result,      \* Parser::parse: the returned Result, or NoResult
    ppc,         \* Parser::parse: "idle", "parse", "done" or "panic"
    ast,         \* Analyzer::analyze: the statements it is given
    scopes,      \* Environment.scopes: the stack of frames, innermost last
    work,        \* Analyzer::analyze: what its calls have still to do,
                 \* next first: statements and expressions to analyze,
                 \* scopes to end, assignment targets to resolve
    lookups,     \* history: for every Environment::get so far, the name
                 \* and the index of the frame whose entry it returned
                 \* (0 when it returned None)
    a_result,    \* Analyzer::analyze: the returned Result, or NoResult
    apc          \* Analyzer::analyze: "idle", "analyze", "done", "panic"

lexvars == <<source, pos, tokens, line, column, pc, spans>>
parvars == <<p_tokens, current, statements, result, ppc>>
anavars == <<ast, scopes, work, lookups, a_result, apc>>
vars == <<source, pos, tokens, line, column, pc, spans,
          p_tokens, current, statements, result, ppc,
          ast, scopes, work, lookups, a_result, apc>>

----------------------------------------------------------------------------
(* Bounds of the model.                                                    *)

\* longest source drawn from the general alphabet
MaxLen == 4
\* longest source drawn from the number alphabet
MaxNumLen == 5
\* most lexemes in a source made of valid lexemes joined by single spaces
MaxLexemes == 2
\* longest token sequence (before its Eof) drawn from the token alphabet
MaxTokens == 4
\* most binary operators in an arithmetic initializer
MaxOps == 3
\* most statements before the main statement of an analyzed program
MaxPrefix == 1
\* most statements in a block of an analyzed program
MaxBlockLen == 2
\* most parameters of a function of an analyzed program
MaxParams == 2
\* most arguments in one argument list of a parsed call
MaxArgs == 2
\* most argument lists after the callee of a parsed call
MaxCalls == 2

----------------------------------------------------------------------------
(* Characters.                                                             *)

DQ == "\""
NL == "\n"
SP == " "
CR == "\r"
TAB == "\t"

\* char::is_alphabetic, on the letters the inputs use
Letters ==
    {"a", "b", "c", "d", "e", "f", "g", "h", "i", "j", "k", "l", "m",
     "n", "o", "p", "q", "r", "s", "t", "u", "v", "w", "x", "y", "z"}

\* char::is_ascii_digit
Digits == {"0", "1", "2", "3", "4", "5", "6", "7", "8", "9"}

is_alphabetic(c) == c \in Letters

is_ascii_digit(c) == c \in Digits

\* char::is_alphanumeric
is_alphanumeric(c) == c \in Letters \cup Digits

SeqsUpTo(S, n) == UNION {[1..k -> S] : k \in 0..n}

RECURSIVE Concat(_)
Concat(ss) == IF ss = <<>> THEN <<>> ELSE Head(ss) \o Concat(Tail(ss))

RECURSIVE JoinWithSpaces(_)
JoinWithSpaces(ss) ==
    IF ss = <<>> THEN <<>>
    ELSE IF Len(ss) = 1 THEN ss[1]
    ELSE ss[1] \o <<SP>> \o JoinWithSpaces(Tail(ss))

----------------------------------------------------------------------------
(* Tokens.                                                                 *)

None == <<>>

Some(v) == <<v>>

Token(token_type, lexeme, literal, ln, col) ==
    [token_type |-> token_type, lexeme |-> lexeme, literal |-> literal,
     line |-> ln, column |-> col]

\* the single-character arms of tokenize's match
Punctuation ==
    [c \in {"(", ")", "{", "}", ",", ".", "-", "+", ";", "/", "*"} |->
        CASE c = "(" -> "LeftParen"
          [] c = ")" -> "RightParen"
          [] c = "{" -> "LeftBrace"
          [] c = "}" -> "RightBrace"
          [] c = "," -> "Comma"
          [] c = "." -> "Dot"
          [] c = "-" -> "Minus"
          [] c = "+" -> "Plus"
          [] c = ";" -> "Semicolon"
          [] c = "/" -> "Slash"
          [] c = "*" -> "Star"]

\* the keyword table of identifier_or_keyword
KeywordType(lexeme) ==
    CASE lexeme = <<"a", "n", "d">> -> "And"
      [] lexeme = <<"c", "l", "a", "s", "s">> -> "Class"
      [] lexeme = <<"e", "l", "s", "e">> -> "Else"
      [] lexeme = <<"f", "a", "l", "s", "e">> -> "False"
      [] lexeme = <<"f", "n">> -> "Function"
      [] lexeme = <<"f", "o", "r">> -> "For"
      [] lexeme = <<"i", "f">> -> "If"
      [] lexeme = <<"n", "i", "l">> -> "Nil"
      [] lexeme = <<"o", "r">> -> "Or"
      [] lexeme = <<"p", "r", "i", "n", "t">> -> "Print"
      [] lexeme = <<"r", "e", "t", "u", "r", "n">> -> "Return"
      [] lexeme = <<"s", "u", "p", "e", "r">> -> "Super"
      [] lexeme = <<"t", "h", "i", "s">> -> "This"
      [] lexeme = <<"t", "r", "u", "e">> -> "True"
      [] lexeme = <<"l", "e", "t">> -> "Variable"
      [] lexeme = <<"w", "h", "i", "l", "e">> -> "While"
      [] OTHER -> "Identifier"

----------------------------------------------------------------------------
(* f64 parsing and printing, on the decimal texts the model meets.         *)

DotCount(s) == Cardinality({i \in 1..Len(s) : s[i] = "."})

DotIndex(s) == CHOOSE i \in 1..Len(s) : s[i] = "."

RECURSIVE StripLeadingZeros(_)
StripLeadingZeros(s) ==
    IF Len(s) > 1 /\ s[1] = "0" THEN StripLeadingZeros(Tail(s)) ELSE s

RECURSIVE StripTrailingZeros(_)
StripTrailingZeros(s) ==
    IF Len(s) > 0 /\ s[Len(s)] = "0"
    THEN StripTrailingZeros(SubSeq(s, 1, Len(s) - 1))
    ELSE s

\* str::parse::<f64> accepts an unsigned decimal text when it has at least
\* one digit and at most one point ("1", "1.", ".5", "1.25")
ParsesAsF64(s) ==
    /\ \A i \in 1..Len(s) : s[i] \in Digits \cup {"."}
    /\ DotCount(s) <= 1
    /\ \E i \in 1..Len(s) : s[i] \in Digits

\* f64::to_string of the parsed value: the shortest decimal text of the
\* number ("1." and "1.0" print as "1", "01.50" as "1.5")
F64ToString(s) ==
    LET ip == IF DotCount(s) = 0 THEN s ELSE SubSeq(s, 1, DotIndex(s) - 1)
        fp == IF DotCount(s) = 0 THEN <<>>
              ELSE SubSeq(s, DotIndex(s) + 1, Len(s))
        i2 == IF ip = <<>> THEN <<"0">> ELSE StripLeadingZeros(ip)
        f2 == StripTrailingZeros(fp)
    IN  IF f2 = <<>> THEN i2 ELSE i2 \o <<".">> \o f2

----------------------------------------------------------------------------
(* The scanner's helper functions.  Each takes the iterator position p     *)
(* (and the caller's line and column, passed by value) and returns a       *)
(* record [panic, tok, pos]: the token built and the iterator position     *)
(* after the call.                                                         *)

Peek(p) == IF p <= Len(source) THEN Some(source[p]) ELSE None

\* `chars.peek()` inside the arms for ! = > <: the operator character has
\* only been peeked, so this is still the operator character itself
OperatorLookahead(p) == Peek(p) = Some("=")

\* single_char_token: chars.next().unwrap() is the lexeme
single_char_token(token_type, p, ln, col) ==
    IF p > Len(source)
    THEN [panic |-> TRUE, tok |-> None, pos |-> p]
    ELSE [panic |-> FALSE,
          tok |-> Some(Token(token_type, <<source[p]>>, None, ln, col)),
          pos |-> p + 1]

\* the arms for ! = > <: peek, consume one character on a match, then
\* single_char_token
operator_token(two, one, p, ln, col) ==
    IF OperatorLookahead(p)
    THEN single_char_token(two, p + 1, ln, col)
    ELSE single_char_token(one, p, ln, col)

\* the `for c in chars.by_ref()` loop of string_token, from position p
RECURSIVE string_loop(_, _, _, _, _)
string_loop(p, lexeme, literal, ln, col) ==
    IF p > Len(source)
    THEN [panic |-> FALSE, tok |-> Some(Token("Eof", <<>>, None, ln, col)),
          pos |-> p]
    ELSE IF source[p] = DQ
    THEN [panic |-> FALSE,
          tok |-> Some(Token("String", <<DQ>> \o lexeme \o <<DQ>>,
                             Some(literal), ln, col)),
          pos |-> p + 1]
    ELSE IF source[p] = NL
    THEN string_loop(p + 1, lexeme, literal, ln + 1, 1)
    ELSE string_loop(p + 1, Append(lexeme, source[p]),
                     Append(literal, source[p]), ln, col + 1)

\* string_token: the loop starts at the peeked, unconsumed opening quote
string_token(p, ln, col) == string_loop(p, <<>>, <<>>, ln, col)

\* take_while(chars, |c| c.is_alphanumeric() || *c == '_')
RECURSIVE take_while(_, _)
take_while(p, acc) ==
    IF p <= Len(source) /\ (is_alphanumeric(source[p]) \/ source[p] = "_")
    THEN take_while(p + 1, Append(acc, source[p]))
    ELSE [text |-> acc, pos |-> p]

identifier_or_keyword(p, ln, col) ==
    LET r == take_while(p, <<>>)
    IN  [panic |-> FALSE,
         tok |-> Some(Token(KeywordType(r.text), r.text, None, ln, col)),
         pos |-> r.pos]

\* a number loop that never stops at a decimal point
RECURSIVE number_loop_any_points(_, _, _)
number_loop_any_points(p, lexeme, decimal_found) ==
    IF p <= Len(source) /\ (is_ascii_digit(source[p]) \/ source[p] = ".")
    THEN number_loop_any_points(p + 1, Append(lexeme, source[p]), TRUE)
    ELSE [text |-> lexeme, pos |-> p]

\* the `while let Some(&c) = chars.peek()` loop of number_token
RECURSIVE number_loop(_, _, _)
number_loop(p, lexeme, decimal_found) ==
    IF p > Len(source) THEN [text |-> lexeme, pos |-> p]
    ELSE IF is_ascii_digit(source[p])
    THEN number_loop(p + 1, Append(lexeme, source[p]), decimal_found)
    ELSE IF source[p] = "."
    THEN IF decimal_found THEN [text |-> lexeme, pos |-> p]
         ELSE number_loop(p + 1, Append(lexeme, source[p]), TRUE)
    ELSE [text |-> lexeme, pos |-> p]

number_token(p, ln, col) ==
    LET r == number_loop(p, <<>>, FALSE)
    IN  IF ParsesAsF64(r.text)
        THEN [panic |-> FALSE,
              tok |-> Some(Token("Number", r.text,
                                 Some(F64ToString(r.text)), ln, col)),
              pos |-> r.pos]
        ELSE [panic |-> FALSE,
              tok |-> Some(Token("Eof", <<>>, None, ln, col)),
              pos |-> r.pos]

----------------------------------------------------------------------------
(* tokenize: one action per arm of the match in the scanning loop, and one *)
(* for the push of the final Eof after the loop.                           *)

\* tokens.push(<helper>(..)): the helper's token is pushed, unless the
\* helper panicked (an unwrap of None), which unwinds out of tokenize
Push(r) ==
    IF r.panic
    THEN /\ pc' = "panic"
         /\ UNCHANGED <<pos, tokens, spans>>
    ELSE /\ tokens' = Append(tokens, r.tok[1])
         /\ spans' = Append(spans, [from |-> pos, to |-> r.pos])
         /\ pos' = r.pos
         /\ pc' = pc

AtChar(c) == pc = "scan" /\ Peek(pos) = Some(c)

ScanPunctuation ==
    /\ pc = "scan" /\ Peek(pos) # None
    /\ source[pos] \in DOMAIN Punctuation
    /\ Push(single_char_token(Punctuation[source[pos]], pos, line, column))
    /\ UNCHANGED <<source, line, column, parvars, anavars>>

ScanBang ==
    /\ AtChar("!")
    /\ Push(operator_token("BangEqual", "Bang", pos, line, column))
    /\ UNCHANGED <<source, line, column, parvars, anavars>>

ScanEqual ==
    /\ AtChar("=")
    /\ Push(operator_token("EqualEqual", "Equal", pos, line, column))
    /\ UNCHANGED <<source, line, column, parvars, anavars>>

ScanGreater ==
    /\ AtChar(">")
    /\ Push(operator_token("GreaterEqual", "Greater", pos, line, column))
    /\ UNCHANGED <<source, line, column, parvars, anavars>>

ScanLess ==
    /\ AtChar("<")
    /\ Push(operator_token("LessEqual", "Less", pos, line, column))
    /\ UNCHANGED <<source, line, column, parvars, anavars>>

ScanString ==
    /\ AtChar(DQ)
    /\ Push(string_token(pos, line, column))
    /\ UNCHANGED <<source, line, column, parvars, anavars>>

ScanIdentifier ==
    /\ pc = "scan" /\ Peek(pos) # None
    /\ is_alphabetic(source[pos]) \/ source[pos] = "_"
    /\ Push(identifier_or_keyword(pos, line, column))
    /\ UNCHANGED <<source, line, column, parvars, anavars>>

ScanNumber ==
    /\ pc = "scan" /\ Peek(pos) # None
    /\ is_ascii_digit(source[pos])
    /\ Push(number_token(pos, line, column))
    /\ UNCHANGED <<source, line, column, parvars, anavars>>

ScanWhitespace ==
    /\ pc = "scan" /\ Peek(pos) # None
    /\ source[pos] \in {SP, CR, TAB}
    /\ pos' = pos + 1
    /\ column' = column + 1
    /\ UNCHANGED <<source, tokens, spans, line, pc, parvars, anavars>>

ScanNewline ==
    /\ AtChar(NL)
    /\ line' = line + 1
    /\ column' = 1
    /\ pos' = pos + 1
    /\ UNCHANGED <<source, tokens, spans, pc, parvars, anavars>>

Recognized ==
    DOMAIN Punctuation \cup {"!", "=", ">", "<", DQ, "_", SP, CR, TAB, NL}
        \cup Letters \cup Digits

ScanUnrecognized ==
    /\ pc = "scan" /\ Peek(pos) # None
    /\ source[pos] \notin Recognized
    /\ pos' = pos + 1
    /\ column' = column + 1
    /\ UNCHANGED <<source, tokens, spans, line, pc, parvars, anavars>>

\* the final push that forgets the Eof token
FinishTokensWithoutEof == tokens

FinishTokens == Append(tokens, Token("Eof", <<>>, None, line, column))

Finish ==
    /\ pc = "scan" /\ Peek(pos) = None
    /\ tokens' = FinishTokens
    /\ spans' = Append(spans, [from |-> pos, to |-> pos])
    /\ pc' = "done"
    /\ UNCHANGED <<source, pos, line, column, parvars, anavars>>

----------------------------------------------------------------------------
(* The sources tokenize is run on.                                         *)

\* one character of every arm of the match ("@" is unrecognized)
Alphabet == {"(", "!", "=", "<", ">", DQ, "a", "1", SP, NL, "@"}

NumberAlphabet == {"1", "2", "3", "."}

\* one valid lexeme of every token kind but Eof
ValidLexemes ==
    {<<c>> : c \in DOMAIN Punctuation}
    \cup {<<"!">>, <<"!", "=">>, <<"=">>, <<"=", "=">>,
          <<">">>, <<">", "=">>, <<"<">>, <<"<", "=">>}
    \cup {<<"x">>, <<DQ, "s", DQ>>, <<"1">>}
    \cup {<<"a", "n", "d">>, <<"c", "l", "a", "s", "s">>,
          <<"e", "l", "s", "e">>, <<"f", "a", "l", "s", "e">>, <<"f", "n">>,
          <<"f", "o", "r">>, <<"i", "f">>, <<"n", "i", "l">>, <<"o", "r">>,
          <<"p", "r", "i", "n", "t">>, <<"r", "e", "t", "u", "r", "n">>,
          <<"s", "u", "p", "e", "r">>, <<"t", "h", "i", "s">>,
          <<"t", "r", "u", "e">>, <<"l", "e", "t">>,
          <<"w", "h", "i", "l", "e">>}

SpacedLexemeSources ==
    {JoinWithSpaces(ls) : ls \in SeqsUpTo(ValidLexemes, MaxLexemes)}

Sources ==
    SeqsUpTo(Alphabet, MaxLen)
    \cup SeqsUpTo(NumberAlphabet, MaxNumLen)
    \cup SpacedLexemeSources

NoResult == [kind |-> "none"]

ParserIdle ==
    /\ p_tokens = <<>>
    /\ current = 0
    /\ statements = <<>>
    /\ result = NoResult
    /\ ppc = "idle"

AnalyzerIdle ==
    /\ ast = <<>>
    /\ scopes = <<>>
    /\ work = <<>>
    /\ lookups = <<>>
    /\ a_result = NoResult
    /\ apc = "idle"

Init ==
    /\ source \in Sources
    /\ pos = 1
    /\ tokens = <<>>
    /\ spans = <<>>
    /\ line = 1
    /\ column = 1
    /\ pc = "scan"
    /\ ParserIdle
    /\ AnalyzerIdle

Next ==
    \/ ScanPunctuation
    \/ ScanBang
    \/ ScanEqual
    \/ ScanGreater
    \/ ScanLess
    \/ ScanString
    \/ ScanIdentifier
    \/ ScanNumber
    \/ ScanWhitespace
    \/ ScanNewline
    \/ ScanUnrecognized
    \/ Finish

Spec == Init /\ [][Next]_vars

----------------------------------------------------------------------------
(* The parser.  The cursor c is Parser.current (0-based, as in the code);  *)
(* every parsing function takes the cursor at its entry and returns a      *)
(* record [st, node, cur, err]: st is "ok" (node is the value returned,    *)
(* cur the cursor after the call), "err" (err is the returned Error) or    *)
(* "panic" (an index out of range, or an unwrap of a failed parse).        *)

MAX_ARGS == 255

MAX_PARAMS == 255

Ok(node, c) == [st |-> "ok", node |-> node, cur |-> c, err |-> None]

Err(e, c) == [st |-> "err", node |-> None, cur |-> c, err |-> Some(e)]

Panic(c) == [st |-> "panic", node |-> None, cur |-> c, err |-> None]

\* the message text and the line and column format! puts behind it
Message(text, tok) == [text |-> text, line |-> tok.line, column |-> tok.column]

UnexpectedToken(token, expected, message) ==
    [error |-> "UnexpectedToken", token |-> token, expected |-> expected,
     message |-> message]

TooManyArguments(paren, message) ==
    [error |-> "TooManyArguments", paren |-> paren, message |-> message]

\* Expr
Binary(left, operator, right) ==
    [expr |-> "Binary", left |-> left, operator |-> operator, right |-> right]

Logical(left, operator, right) ==
    [expr |-> "Logical", left |-> left, operator |-> operator,
     right |-> right]

Grouping(expression) == [expr |-> "Grouping", expression |-> expression]

Literal(value) == [expr |-> "Literal", value |-> value]

Unary(operator, right) ==
    [expr |-> "Unary", operator |-> operator, right |-> right]

Variable(name) == [expr |-> "Variable", name |-> name]

Assign(name, value) == [expr |-> "Assign", name |-> name, value |-> value]

Call(callee, paren, arguments) ==
    [expr |-> "Call", callee |-> callee, paren |-> paren,
     arguments |-> arguments]

\* Literal
LitString(v) == [literal |-> "String", value |-> v]

LitNumber(v) == [literal |-> "Number", value |-> v]

LitBoolean(b) == [literal |-> "Boolean", value |-> b]

LitNil == [literal |-> "Nil"]

\* Stmt
StmtExpression(expression) ==
    [stmt |-> "Expression", expression |-> expression]

StmtVariable(name, initializer) ==
    [stmt |-> "Variable", name |-> name, initializer |-> initializer]

StmtBlock(stmts) == [stmt |-> "Block", statements |-> stmts]

StmtIf(condition, then_branch, else_branch) ==
    [stmt |-> "If", condition |-> condition, then_branch |-> then_branch,
     else_branch |-> else_branch]

StmtWhile(condition, body) ==
    [stmt |-> "While", condition |-> condition, body |-> body]

StmtFunction(name, parameters, body) ==
    [stmt |-> "Function", name |-> name, parameters |-> parameters,
     body |-> body]

StmtReturn(keyword, value) ==
    [stmt |-> "Return", keyword |-> keyword, value |-> value]

\* self.tokens[i]
TokAt(i) == p_tokens[i + 1]

\* whether self.tokens[i] is in range
Valid(i) == i < Len(p_tokens)

\* peek: self.tokens[self.current]
peek(c) == TokAt(c)

\* is_at_end: the cursor is on an Eof token
is_at_end(c) == peek(c).token_type = "Eof"

\* previous: self.tokens[self.current - 1]; current = 0 underflows
previous_ok(c) == c >= 1 /\ Valid(c - 1)

previous(c) == TokAt(c - 1)

\* backward: the token n back, or the first one
backward(c, n) == IF c < n THEN TokAt(0) ELSE TokAt(c - n)

backward_ok(c, n) == IF c < n THEN Valid(0) ELSE Valid(c - n)

\* forward: the token n ahead, or the last one
forward(c, n) ==
    IF c + n >= Len(p_tokens) THEN TokAt(Len(p_tokens) - 1) ELSE TokAt(c + n)

forward_ok(c, n) == Len(p_tokens) >= 1

\* check: not at the end and the current token has the type
check(c, token_type) ==
    IF is_at_end(c) THEN FALSE ELSE peek(c).token_type = token_type

\* matches: some type of the list passes check (the cursor then advances
\* by one: advance moves it because check has excluded the end)
matches(c, types) == \E t \in types : check(c, t)

\* advance: the cursor after the call
advance(c) == IF ~is_at_end(c) THEN c + 1 ELSE c

\* consume, its message built from peek() (or from previous(), which is in
\* range wherever the code builds such a message)
consume(c, token_type, text) ==
    IF ~Valid(c) THEN Panic(c)
    ELSE IF check(c, token_type) THEN Ok(peek(c), advance(c))
    ELSE Err(UnexpectedToken(peek(c), <<token_type>>,
                             Message(text, peek(c))), c)

consume_prev(c, token_type, text) ==
    IF ~Valid(c) \/ ~previous_ok(c) THEN Panic(c)
    ELSE IF check(c, token_type) THEN Ok(peek(c), advance(c))
    ELSE Err(UnexpectedToken(peek(c), <<token_type>>,
                             Message(text, previous(c))), c)

RECURSIVE Go(_, _)

\* the value of a one-element set: Bind({body : r \in {call}}) is body with
\* r bound to the value of the call, which is evaluated once
Bind(S) == CHOOSE x \in S : TRUE

\* what the body of a `loop` gives when it goes round again: the values the
\* next iteration starts from
Again(a) == [st |-> "again", args |-> a]

\* `loop { .. }` with body f, from the outcome r of the iterations so far:
\* the body is run until it returns or breaks.  k bounds the iterations
\* left (every iteration consumes a token); they are run by halves.
RECURSIVE Loop(_, _, _)
Loop(f, r, k) ==
    IF r.st # "again" \/ k = 0 THEN r
    ELSE IF k = 1 THEN Go(f, r.args)
    ELSE Bind({Loop(f, h, k - k \div 2) : h \in {Loop(f, r, k \div 2)}})

declaration(c) ==
    IF ~Valid(c) THEN Panic(c)
    ELSE IF matches(c, {"Variable"})
    THEN Go("variable_declaration", <<c + 1>>)
    ELSE IF matches(c, {"Function"})
    THEN Go("function_declaration", <<c + 1>>)
    ELSE Go("statement", <<c>>)

variable_declaration(c) ==
    LET name == consume_prev(c, "Identifier", "Expected variable name!")
    IN  IF name.st # "ok" THEN name
        ELSE IF ~Valid(name.cur) THEN Panic(name.cur)
        ELSE Bind({
            IF init.st # "ok" THEN init
            ELSE
            LET initializer == IF matches(name.cur, {"Equal"})
                               THEN Some(init.node) ELSE None
                semi == consume_prev(init.cur, "Semicolon",
                            "Expected ';' after variable declaration!")
            IN  IF semi.st # "ok" THEN semi
                ELSE Ok(StmtVariable(name.node, initializer), semi.cur)
          : init \in {IF matches(name.cur, {"Equal"})
                      THEN Go("expression", <<name.cur + 1>>)
                      ELSE Ok(None, name.cur)}})

\* the parameter loop of function_declaration
parameters_loop(c, parameters) ==
    IF Len(parameters) >= MAX_PARAMS
    THEN IF ~Valid(c) THEN Panic(c)
         ELSE Err(UnexpectedToken(peek(c), <<"RightParen">>,
                      Message("Cannot have more than 255 parameters!",
                              peek(c))), c)
    ELSE
    LET prm == consume_prev(c, "Identifier", "Expected parameter name!")
    IN  IF prm.st # "ok" THEN prm
        ELSE IF ~Valid(prm.cur) THEN Panic(prm.cur)
        ELSE IF matches(prm.cur, {"Comma"})
        THEN Again(<<prm.cur + 1, Append(parameters, prm.node)>>)
        ELSE Ok(Append(parameters, prm.node), prm.cur)

function_declaration(c) ==
    LET name == consume_prev(c, "Identifier", "Expected function name!")
    IN  IF name.st # "ok" THEN name
        ELSE
        LET lp == consume_prev(name.cur, "LeftParen",
                      "Expected '(' after function name!")
        IN  IF lp.st # "ok" THEN lp
            ELSE IF ~Valid(lp.cur) THEN Panic(lp.cur)
            ELSE Bind({
                IF ps.st # "ok" THEN ps
                ELSE
                LET rp == consume_prev(ps.cur, "RightParen",
                              "Expected ')' after function parameters!")
                IN  IF rp.st # "ok" THEN rp
                    ELSE
                    LET lb == consume_prev(rp.cur, "LeftBrace",
                                  "Expected '{' before function body!")
                    IN  IF lb.st # "ok" THEN lb
                        ELSE Bind({
                            IF body.st # "ok" THEN body
                            ELSE Ok(StmtFunction(name.node, ps.node,
                                        StmtBlock(body.node)), body.cur)
                          : body \in {Go("block", <<lb.cur>>)}})
              : ps \in {IF ~check(lp.cur, "RightParen")
                        THEN Loop("parameters_loop",
                                  Again(<<lp.cur, <<>>>>), Len(p_tokens))
                        ELSE Ok(<<>>, lp.cur)}})

statement(c) ==
    IF ~Valid(c) THEN Panic(c)
    ELSE IF matches(c, {"LeftBrace"})
    THEN Bind({IF b.st # "ok" THEN b ELSE Ok(StmtBlock(b.node), b.cur)
               : b \in {Go("block", <<c + 1>>)}})
    ELSE IF matches(c, {"If"}) THEN Go("if_statement", <<c + 1>>)
    ELSE IF matches(c, {"While"}) THEN Go("while_statement", <<c + 1>>)
    ELSE IF matches(c, {"For"}) THEN Go("for_statement", <<c + 1>>)
    ELSE IF matches(c, {"Return"}) THEN Go("return_statement", <<c + 1>>)
    ELSE Go("expression_statement", <<c>>)

expression(c) == Go("assignment", <<c>>)

\* an assignment that accepts any target expression
assignment_any_target(c) ==
    Bind({
        IF e.st # "ok" THEN e
        ELSE IF ~Valid(e.cur) THEN Panic(e.cur)
        ELSE IF matches(e.cur, {"Equal"})
        THEN Bind({
                 IF value.st # "ok" THEN value
                 ELSE Ok(Assign(e.node, value.node), value.cur)
               : value \in {Go("assignment", <<e.cur + 1>>)}})
        ELSE e
      : e \in {Go("or", <<c>>)}})

assignment(c) ==
    Bind({
        IF e.st # "ok" THEN e
        ELSE IF ~Valid(e.cur) THEN Panic(e.cur)
        ELSE IF matches(e.cur, {"Equal"})
        THEN LET equals == peek(e.cur)
             IN  Bind({
                     IF value.st # "ok" THEN value
                     ELSE IF e.node.expr = "Variable"
                     THEN Ok(Assign(e.node.name, value.node), value.cur)
                     ELSE IF ~Valid(value.cur) THEN Panic(value.cur)
                     ELSE Err(UnexpectedToken(equals, <<"Identifier">>,
                                  Message("Invalid assignment target!",
                                          peek(value.cur))), value.cur)
                   : value \in {Go("assignment", <<e.cur + 1>>)}})
        ELSE e
      : e \in {Go("or", <<c>>)}})

\* an or loop whose right operand is a whole `or`: a chain of `or` groups
\* to the right
or_loop_right_assoc(e, c) ==
    IF ~Valid(c) THEN Panic(c)
    ELSE IF matches(c, {"Or"})
    THEN LET operator == peek(c)
         IN  Bind({
                 IF right.st # "ok" THEN right
                 ELSE Ok(Logical(e, operator, right.node), right.cur)
               : right \in {Go("or", <<c + 1>>)}})
    ELSE Ok(e, c)

\* the `while self.matches(..)` loop of or
or_loop(e, c) ==
    IF ~Valid(c) THEN Panic(c)
    ELSE IF matches(c, {"Or"})
    THEN LET operator == peek(c)
         IN  Bind({
                 IF right.st # "ok" THEN right
                 ELSE Go("or_loop",
                         <<Logical(e, operator, right.node), right.cur>>)
               : right \in {Go("and", <<c + 1>>)}})
    ELSE Ok(e, c)

or(c) ==
    Bind({IF e.st # "ok" THEN e ELSE Go("or_loop", <<e.node, e.cur>>)
          : e \in {Go("and", <<c>>)}})

\* the `while self.matches(..)` loop of and
and_loop(e, c) ==
    IF ~Valid(c) THEN Panic(c)
    ELSE IF matches(c, {"And"})
    THEN LET operator == peek(c)
         IN  Bind({
                 IF right.st # "ok" THEN right
                 ELSE Go("and_loop",
                         <<Logical(e, operator, right.node), right.cur>>)
               : right \in {Go("equality", <<c + 1>>)}})
    ELSE Ok(e, c)

and(c) ==
    Bind({IF e.st # "ok" THEN e ELSE Go("and_loop", <<e.node, e.cur>>)
          : e \in {Go("equality", <<c>>)}})

\* the `while self.matches(..)` loop of equality
equality_loop(e, c) ==
    IF ~Valid(c) THEN Panic(c)
    ELSE IF matches(c, {"BangEqual", "EqualEqual"})
    THEN LET operator == peek(c)
         IN  Bind({
                 IF right.st # "ok" THEN right
                 ELSE Go("equality_loop",
                         <<Binary(e, operator, right.node), right.cur>>)
               : right \in {Go("comparison", <<c + 1>>)}})
    ELSE Ok(e, c)

equality(c) ==
    Bind({IF e.st # "ok" THEN e ELSE Go("equality_loop", <<e.node, e.cur>>)
          : e \in {Go("comparison", <<c>>)}})

\* the `while self.matches(..)` loop of comparison
comparison_loop(e, c) ==
    IF ~Valid(c) THEN Panic(c)
    ELSE IF matches(c, {"Greater", "GreaterEqual", "Less", "LessEqual"})
    THEN LET operator == peek(c)
         IN  Bind({
                 IF right.st # "ok" THEN right
                 ELSE Go("comparison_loop",
                         <<Binary(e, operator, right.node), right.cur>>)
               : right \in {Go("term", <<c + 1>>)}})
    ELSE Ok(e, c)

comparison(c) ==
    Bind({IF e.st # "ok" THEN e ELSE Go("comparison_loop", <<e.node, e.cur>>)
          : e \in {Go("term", <<c>>)}})

\* a term loop whose right operand is a whole term: + and - group to
\* the right
term_loop_right_assoc(e, c) ==
    IF ~Valid(c) THEN Panic(c)
    ELSE IF matches(c, {"Minus", "Plus"})
    THEN LET operator == peek(c)
         IN  Bind({
                 IF right.st # "ok" THEN right
                 ELSE Ok(Binary(e, operator, right.node), right.cur)
               : right \in {Go("term", <<c + 1>>)}})
    ELSE Ok(e, c)

\* the `while self.matches(..)` loop of term
term_loop(e, c) ==
    IF ~Valid(c) THEN Panic(c)
    ELSE IF matches(c, {"Minus", "Plus"})
    THEN LET operator == peek(c)
         IN  Bind({
                 IF right.st # "ok" THEN right
                 ELSE Go("term_loop",
                         <<Binary(e, operator, right.node), right.cur>>)
               : right \in {Go("factor", <<c + 1>>)}})
    ELSE Ok(e, c)

term(c) ==
    Bind({IF e.st # "ok" THEN e ELSE Go("term_loop", <<e.node, e.cur>>)
          : e \in {Go("factor", <<c>>)}})

\* the `while self.matches(..)` loop of factor
factor_loop(e, c) ==
    IF ~Valid(c) THEN Panic(c)
    ELSE IF matches(c, {"Slash", "Star"})
    THEN LET operator == peek(c)
         IN  Bind({
                 IF right.st # "ok" THEN right
                 ELSE Go("factor_loop",
                         <<Binary(e, operator, right.node), right.cur>>)
               : right \in {Go("unary", <<c + 1>>)}})
    ELSE Ok(e, c)

factor(c) ==
    Bind({IF e.st # "ok" THEN e ELSE Go("factor_loop", <<e.node, e.cur>>)
          : e \in {Go("unary", <<c>>)}})

unary(c) ==
    IF ~Valid(c) THEN Panic(c)
    ELSE IF matches(c, {"Bang", "Minus"})
    THEN LET operator == peek(c)
         IN  Bind({
                 IF right.st # "ok" THEN right
                 ELSE Ok(Unary(operator, right.node), right.cur)
               : right \in {Go("unary", <<c + 1>>)}})
    ELSE Go("call", <<c>>)

\* the loop of call
call_loop(e, c) ==
    IF ~Valid(c) THEN Panic(c)
    ELSE IF matches(c, {"LeftParen"})
    THEN Bind({IF r.st # "ok" THEN r
               ELSE Go("call_loop", <<r.node, r.cur>>)
               : r \in {Go("finish_call", <<e, c + 1>>)}})
    ELSE Ok(e, c)

call(c) ==
    Bind({IF e.st # "ok" THEN e ELSE Go("call_loop", <<e.node, e.cur>>)
          : e \in {Go("primary", <<c>>)}})

finish_call(callee, c) ==
    Bind({
        IF args.st # "ok" THEN args
        ELSE
        LET paren == consume(args.cur, "RightParen",
                         "Expected ')' after function arguments!")
        IN  IF paren.st # "ok" THEN paren
            ELSE Ok(Call(callee, paren.node, args.node), paren.cur)
      : args \in {Go("load_arguments", <<c, <<>>>>)}})

primary(c) ==
    IF ~Valid(c) THEN Panic(c)
    ELSE IF matches(c, {"False"}) THEN Ok(Literal(LitBoolean(FALSE)), c + 1)
    ELSE IF matches(c, {"True"}) THEN Ok(Literal(LitBoolean(TRUE)), c + 1)
    ELSE IF matches(c, {"Nil"}) THEN Ok(Literal(LitNil), c + 1)
    ELSE IF matches(c, {"Number"})
    THEN IF ParsesAsF64(peek(c).lexeme)
         THEN Ok(Literal(LitNumber(F64ToString(peek(c).lexeme))), c + 1)
         ELSE Panic(c + 1)
    ELSE IF matches(c, {"String"})
    THEN Ok(Literal(LitString(peek(c).lexeme)), c + 1)
    ELSE IF matches(c, {"Identifier"})
    THEN IF ~Valid(c + 1) THEN Panic(c + 1)
         ELSE IF peek(c + 1).token_type # "LeftParen"
         THEN Err(UnexpectedToken(peek(c + 1), <<"LeftParen">>,
                      Message("Expected '(' after identifier!",
                              peek(c + 1))), c + 1)
         ELSE IF peek(c + 1).token_type = "Identifier"
         THEN Ok(Variable(peek(c + 1)), advance(c + 1))
         ELSE Bind({
             IF args.st # "ok" THEN args
             ELSE IF ~backward_ok(args.cur, Len(args.node))
             THEN Panic(args.cur)
             ELSE
             LET name == backward(args.cur, Len(args.node))
                 paren == consume(args.cur, "RightParen",
                              "Expected ')' after function arguments!")
             IN  IF paren.st # "ok" THEN paren
                 ELSE Ok(Call(Variable(name), paren.node, args.node),
                         paren.cur)
           : args \in {Go("load_arguments", <<c + 1, <<>>>>)}})
    ELSE Err(UnexpectedToken(peek(c),
                 <<"False", "True", "Nil", "Number", "String", "Identifier",
                   "LeftParen">>,
                 Message("Expected expression!", peek(c))), c)

\* the loop of block
block_loop(c, stmts) ==
    IF ~Valid(c) THEN Panic(c)
    ELSE IF ~check(c, "RightBrace") /\ ~is_at_end(c)
    THEN Bind({IF d.st # "ok" THEN d
               ELSE Go("block_loop", <<d.cur, Append(stmts, d.node)>>)
               : d \in {Go("declaration", <<c>>)}})
    ELSE Ok(stmts, c)

block(c) ==
    Bind({
        IF b.st # "ok" THEN b
        ELSE
        LET rb == consume(b.cur, "RightBrace", "Expected '}' after block!")
        IN  IF rb.st # "ok" THEN rb ELSE Ok(b.node, rb.cur)
      : b \in {Go("block_loop", <<c, <<>>>>)}})

expression_statement(c) ==
    Bind({
        IF e.st # "ok" THEN e
        ELSE
        LET semi == consume(e.cur, "Semicolon",
                        "Expected ';' after expression!")
        IN  IF semi.st # "ok" THEN semi
            ELSE Ok(StmtExpression(e.node), semi.cur)
      : e \in {Go("expression", <<c>>)}})

\* the else part of if_statement, after the then branch
else_branch(condition, then_branch) ==
    IF then_branch.st # "ok" THEN then_branch
    ELSE IF ~Valid(then_branch.cur) THEN Panic(then_branch.cur)
    ELSE IF matches(then_branch.cur, {"Else"})
    THEN Bind({
             IF els.st # "ok" THEN els
             ELSE Ok(StmtIf(condition.node, then_branch.node,
                            Some(els.node)), els.cur)
           : els \in {Go("statement", <<then_branch.cur + 1>>)}})
    ELSE Ok(StmtIf(condition.node, then_branch.node, None), then_branch.cur)

if_statement(c) ==
    LET lp == consume(c, "LeftParen", "Expected '(' after 'if'!")
    IN  IF lp.st # "ok" THEN lp
        ELSE Bind({
            IF condition.st # "ok" THEN condition
            ELSE
            LET rp == consume(condition.cur, "RightParen",
                          "Expected ')' after if condition!")
            IN  IF rp.st # "ok" THEN rp
                ELSE Bind({else_branch(condition, then_branch)
                           : then_branch \in {Go("statement", <<rp.cur>>)}})
          : condition \in {Go("expression", <<lp.cur>>)}})

while_statement(c) ==
    LET lp == consume(c, "LeftParen", "Expected '(' after 'while'!")
    IN  IF lp.st # "ok" THEN lp
        ELSE Bind({
            IF condition.st # "ok" THEN condition
            ELSE
            LET rp == consume(condition.cur, "RightParen",
                          "Expected ')' after while condition!")
            IN  IF rp.st # "ok" THEN rp
                ELSE Bind({
                    IF body.st # "ok" THEN body
                    ELSE Ok(StmtWhile(condition.node, body.node), body.cur)
                  : body \in {Go("statement", <<rp.cur>>)}})
          : condition \in {Go("expression", <<lp.cur>>)}})

\* the rewrite at the end of for_statement: the While, its body extended
\* by the increment, inside a Block behind the initializer
for_desugar(initializer, condition, increment, body) ==
    LET body1 == IF increment # None
                 THEN StmtBlock(<<body, StmtExpression(increment[1])>>)
                 ELSE body
        body2 == StmtWhile(IF condition # None THEN condition[1]
                           ELSE Literal(LitBoolean(TRUE)), body1)
    IN  IF initializer # None
        THEN StmtBlock(<<initializer[1], body2>>)
        ELSE body2

\* for_statement from the increment clause on
for_increment(c, initializer, condition) ==
    IF ~Valid(c) THEN Panic(c)
    ELSE Bind({
        IF incr.st # "ok" THEN incr
        ELSE
        LET increment == IF ~check(c, "RightParen")
                         THEN Some(incr.node) ELSE None
            rp == consume(incr.cur, "RightParen",
                      "Expected ')' after for clauses!")
        IN  IF rp.st # "ok" THEN rp
            ELSE Bind({
                IF body.st # "ok" THEN body
                ELSE Ok(for_desugar(initializer, condition, increment,
                                    body.node), body.cur)
              : body \in {Go("statement", <<rp.cur>>)}})
      : incr \in {IF ~check(c, "RightParen")
                  THEN Go("expression", <<c>>)
                  ELSE Ok(None, c)}})

\* for_statement from the condition clause on
for_condition(c, initializer) ==
    IF ~Valid(c) THEN Panic(c)
    ELSE Bind({
        IF cond.st # "ok" THEN cond
        ELSE
        LET condition == IF ~check(c, "Semicolon")
                         THEN Some(cond.node) ELSE None
            semi == consume(cond.cur, "Semicolon",
                        "Expected ';' after loop condition!")
        IN  IF semi.st # "ok" THEN semi
            ELSE for_increment(semi.cur, initializer, condition)
      : cond \in {IF ~check(c, "Semicolon")
                  THEN Go("expression", <<c>>)
                  ELSE Ok(None, c)}})

for_statement(c) ==
    LET lp == consume(c, "LeftParen", "Expected '(' after 'for'!")
    IN  IF lp.st # "ok" THEN lp
        ELSE IF ~Valid(lp.cur) THEN Panic(lp.cur)
        ELSE Bind({
            IF init.st # "ok" THEN init
            ELSE for_condition(init.cur,
                     IF matches(lp.cur, {"Semicolon"}) THEN None
                     ELSE Some(init.node))
          : init \in {IF matches(lp.cur, {"Semicolon"})
                      THEN Ok(None, lp.cur + 1)
                      ELSE IF matches(lp.cur, {"Variable"})
                      THEN Go("variable_declaration", <<lp.cur + 1>>)
                      ELSE Go("expression_statement", <<lp.cur>>)}})

return_statement(c) ==
    IF ~previous_ok(c) \/ ~Valid(c) THEN Panic(c)
    ELSE
    LET keyword == previous(c)
    IN  Bind({
            IF v.st # "ok" THEN v
            ELSE
            LET value == IF ~check(c, "Semicolon") THEN Some(v.node)
                         ELSE None
                semi == consume(v.cur, "Semicolon",
                            "Expected ';' after return value!")
            IN  IF semi.st # "ok" THEN semi
                ELSE Ok(StmtReturn(keyword, value), semi.cur)
          : v \in {IF ~check(c, "Semicolon")
                   THEN Go("expression", <<c>>)
                   ELSE Ok(None, c)}})

\* the loop of load_arguments: c is self.current, n the local `current`
load_arguments_loop(c, n, arguments) ==
    IF ~forward_ok(c, n) THEN Panic(c)
    ELSE IF forward(c, n).token_type # "RightParen"
    THEN Bind({
             IF e.st # "ok" THEN e
             ELSE IF ~Valid(e.cur) THEN Panic(e.cur)
             ELSE IF matches(e.cur, {"Comma"})
             THEN Again(<<e.cur + 1, n + 1, Append(arguments, e.node)>>)
             ELSE [st |-> "ok", node |-> Append(arguments, e.node),
                   cur |-> e.cur, err |-> None, n |-> n + 1]
           : e \in {Go("expression", <<c>>)}})
    ELSE [st |-> "ok", node |-> arguments, cur |-> c, err |-> None,
          n |-> n]

\* load_arguments: the cursor it leaves is the local `current`
load_arguments(c, arguments) ==
    Bind({
        IF r.st # "ok" THEN r
        ELSE IF Len(r.node) > MAX_ARGS
        THEN IF ~previous_ok(r.cur) \/ ~Valid(r.cur) THEN Panic(r.cur)
             ELSE Err(TooManyArguments(previous(r.cur),
                          Message("Cannot have more than 255 arguments!",
                                  peek(r.cur))), r.cur)
        ELSE Ok(r.node, r.n)
      : r \in {Loop("load_arguments_loop",
                     Again(<<c, c + 1, arguments>>), Len(p_tokens))}})

\* the calls between the parsing functions go through this one dispatcher:
\* Go(f, <<a1, .., an>>) is the call f(a1, .., an)
Go(f, a) ==
    CASE f = "declaration" -> declaration(a[1])
      [] f = "variable_declaration" -> variable_declaration(a[1])
      [] f = "function_declaration" -> function_declaration(a[1])
      [] f = "parameters_loop" -> parameters_loop(a[1], a[2])
      [] f = "statement" -> statement(a[1])
      [] f = "expression" -> expression(a[1])
      [] f = "assignment" -> assignment(a[1])
      [] f = "or" -> or(a[1])
      [] f = "or_loop" -> or_loop(a[1], a[2])
      [] f = "and" -> and(a[1])
      [] f = "and_loop" -> and_loop(a[1], a[2])
      [] f = "equality" -> equality(a[1])
      [] f = "equality_loop" -> equality_loop(a[1], a[2])
      [] f = "comparison" -> comparison(a[1])
      [] f = "comparison_loop" -> comparison_loop(a[1], a[2])
      [] f = "term" -> term(a[1])
      [] f = "term_loop" -> term_loop(a[1], a[2])
      [] f = "factor" -> factor(a[1])
      [] f = "factor_loop" -> factor_loop(a[1], a[2])
      [] f = "unary" -> unary(a[1])
      [] f = "call" -> call(a[1])
      [] f = "call_loop" -> call_loop(a[1], a[2])
      [] f = "finish_call" -> finish_call(a[1], a[2])
      [] f = "primary" -> primary(a[1])
      [] f = "block" -> block(a[1])
      [] f = "block_loop" -> block_loop(a[1], a[2])
      [] f = "expression_statement" -> expression_statement(a[1])
      [] f = "if_statement" -> if_statement(a[1])
      [] f = "while_statement" -> while_statement(a[1])
      [] f = "for_statement" -> for_statement(a[1])
      [] f = "return_statement" -> return_statement(a[1])
      [] f = "load_arguments" -> load_arguments(a[1], a[2])
      [] f = "load_arguments_loop" -> load_arguments_loop(a[1], a[2], a[3])

----------------------------------------------------------------------------
(* Parser::new and Parser::parse: one action per outcome of an iteration   *)
(* of the `while !self.is_at_end()` loop, and one for the return after it. *)

ResultOk(stmts) == [kind |-> "Ok", statements |-> stmts]

ResultErr(e) == [kind |-> "Err", error |-> e]

\* statements.push(self.declaration()?) with declaration returning Ok
ParseDeclaration ==
    /\ ppc = "parse"
    /\ Valid(current) /\ ~is_at_end(current)
    /\ LET d == declaration(current)
       IN  /\ d.st = "ok"
           /\ statements' = Append(statements, d.node)
           /\ current' = d.cur
    /\ UNCHANGED <<p_tokens, result, ppc, lexvars, anavars>>

\* a parse that notes the error of a failed declaration and goes on with
\* the token after it
ParseErrorAndGoOn ==
    /\ ppc = "parse"
    /\ Valid(current) /\ ~is_at_end(current)
    /\ LET d == declaration(current)
       IN  /\ d.st = "err"
           /\ result' = ResultErr(d.err[1])
           /\ current' = IF is_at_end(d.cur) THEN d.cur ELSE d.cur + 1
    /\ UNCHANGED <<p_tokens, statements, ppc, lexvars, anavars>>

\* declaration returns Err: the `?` returns it from parse
ParseError ==
    /\ ppc = "parse"
    /\ Valid(current) /\ ~is_at_end(current)
    /\ LET d == declaration(current)
       IN  /\ d.st = "err"
           /\ result' = ResultErr(d.err[1])
           /\ current' = d.cur
    /\ ppc' = "done"
    /\ UNCHANGED <<p_tokens, statements, lexvars, anavars>>

\* an index out of range (or a failed unwrap) unwinds out of parse
ParsePanic ==
    /\ ppc = "parse"
    /\ \/ ~Valid(current)
       \/ /\ Valid(current) /\ ~is_at_end(current)
          /\ declaration(current).st = "panic"
    /\ ppc' = "panic"
    /\ UNCHANGED <<p_tokens, current, statements, result, lexvars, anavars>>

\* the loop ends at Eof: Ok(statements)
ParseReturn ==
    /\ ppc = "parse"
    /\ Valid(current) /\ is_at_end(current)
    /\ result' = ResultOk(statements)
    /\ ppc' = "done"
    /\ UNCHANGED <<p_tokens, current, statements, lexvars, anavars>>

----------------------------------------------------------------------------
(* The token sequences parse is run on.  An item is a token kind with its  *)
(* lexeme; MkTokens lays the items out on line 1, one column each, and     *)
(* ends them with the Eof token, as tokenize ends every sequence.          *)

Chars(str) ==
    CASE str = "let" -> <<"l", "e", "t">>
      [] str = "for" -> <<"f", "o", "r">>
      [] str = "print" -> <<"p", "r", "i", "n", "t">>
      [] str = "or" -> <<"o", "r">>
      [] str = "and" -> <<"a", "n", "d">>
      [] str = "fn" -> <<"f", "n">>
      [] str = "if" -> <<"i", "f">>
      [] str = "else" -> <<"e", "l", "s", "e">>
      [] str = "while" -> <<"w", "h", "i", "l", "e">>
      [] str = "return" -> <<"r", "e", "t", "u", "r", "n">>
      [] str = "break" -> <<"b", "r", "e", "a", "k">>
      [] str = "continue" -> <<"c", "o", "n", "t", "i", "n", "u", "e">>
      [] OTHER -> <<str>>

Item(token_type, str) == [t |-> token_type, l |-> Chars(str)]

ItemLiteral(item) ==
    IF item.t = "Number" THEN Some(F64ToString(item.l))
    ELSE IF item.t = "String" THEN Some(SubSeq(item.l, 2, Len(item.l) - 1))
    ELSE None

MkTokens(items) ==
    [i \in 1..(Len(items) + 1) |->
        IF i <= Len(items)
        THEN Token(items[i].t, items[i].l, ItemLiteral(items[i]), 1, i)
        ELSE Token("Eof", <<>>, None, 1, i)]

ILet == Item("Variable", "let")
IFor == Item("For", "for")
IPrint == Item("Print", "print")
IEqual == Item("Equal", "=")
ISemi == Item("Semicolon", ";")
ILParen == Item("LeftParen", "(")
IRParen == Item("RightParen", ")")
ILBrace == Item("LeftBrace", "{")
IRBrace == Item("RightBrace", "}")
IComma == Item("Comma", ",")
IPlus == Item("Plus", "+")
IMinus == Item("Minus", "-")
IStar == Item("Star", "*")
ISlash == Item("Slash", "/")
ILess == Item("Less", "<")
IBang == Item("Bang", "!")
ITrue == Item("True", "true")
IFalse == Item("False", "false")
INil == Item("Nil", "nil")
IStr == [t |-> "String", l |-> <<DQ, "s", DQ>>]
INum(d) == Item("Number", d)
IId(n) == Item("Identifier", n)

TokenAlphabet ==
    {INum("1"), IId("x"), IEqual, ISemi, ILParen, IRParen, IComma, IMinus}

ShortInputs == SeqsUpTo(TokenAlphabet, MaxTokens)

ArithmeticOps == {IPlus, IMinus, IStar, ISlash}

DigitOf(i) == <<"1", "2", "3", "4", "5", "6", "7", "8", "9">>[i]

\* 1 op 2 op 3 ...: the literals 1..n+1 joined by the n operators of ops
ArithmeticChain(ops) ==
    [i \in 1..(2 * Len(ops) + 1) |->
        IF i % 2 = 1 THEN INum(DigitOf((i + 1) \div 2)) ELSE ops[i \div 2]]

\* let x = <chain> ;
ArithmeticDecl(ops) ==
    <<ILet, IId("x"), IEqual>> \o ArithmeticChain(ops) \o <<ISemi>>

ArithmeticInputs ==
    {ArithmeticDecl(ops) : ops \in SeqsUpTo(ArithmeticOps, MaxOps)}

\* expressions that are no bare variable reference
NonVariableTargets ==
    {<<INum("1")>>, <<ITrue>>, <<INil>>, <<IStr>>, <<IMinus, INum("1")>>,
     <<IBang, ITrue>>, <<INum("1"), IPlus, INum("2")>>,
     <<INum("1"), IStar, INum("2")>>, <<INum("1"), ILess, INum("2")>>}

AssignedValues ==
    {<<INum("2")>>, <<INil>>, <<IMinus, INum("2")>>,
     <<INum("2"), IPlus, INum("3")>>}

\* <target> = <value> ;
BadAssignment(target, value) == target \o <<IEqual>> \o value \o <<ISemi>>

BadAssignmentInputs ==
    {BadAssignment(t, v) : t \in NonVariableTargets, v \in AssignedValues}

ForInitializers ==
    {<<ISemi>>, <<ILet, IId("i"), IEqual, INum("0"), ISemi>>,
     <<INum("0"), ISemi>>}

ForConditions ==
    {<<>>, <<INum("1"), ILess, INum("3")>>, <<IId("i"), ILess, INum("3")>>}

ForIncrements ==
    {<<>>, <<INum("2")>>,
     <<IId("i"), IEqual, IId("i"), IPlus, INum("1")>>}

ForBodies ==
    {<<INum("5"), ISemi>>, <<ILBrace, IRBrace>>, <<IPrint, IId("i"), ISemi>>}

\* for ( <init> <cond> ; <incr> ) <body>
ForStatement(init, cond, incr, body) ==
    <<IFor, ILParen>> \o init \o cond \o <<ISemi>> \o incr \o <<IRParen>>
        \o body

ForInputs ==
    {ForStatement(i, c, n, b) :
        i \in ForInitializers, c \in ForConditions, n \in ForIncrements,
        b \in ForBodies}

\* n1 = n2 = ... = 1 ;
RECURSIVE AssignmentChain(_)
AssignmentChain(names) ==
    IF names = <<>> THEN <<INum("1"), ISemi>>
    ELSE <<IId(Head(names)), IEqual>> \o AssignmentChain(Tail(names))

AssignmentInputs ==
    {AssignmentChain(names) :
        names \in SeqsUpTo({"a", "b"}, MaxOps) \ {<<>>}}

\* one token of every kind primary looks at, and some it does not
PrimaryTokens ==
    {IFalse, ITrue, INil, INum("1"), IStr, IId("x"), ILParen, IRParen,
     ISemi, IPlus, IEqual, ILBrace, IRBrace, IComma, IPrint}

\* <token> ;   ( <token> ) ;   <token> + 1 ;
PrimaryInputs ==
    {<<t, ISemi>> : t \in PrimaryTokens}
        \cup {<<ILParen, t, IRParen, ISemi>> : t \in PrimaryTokens}
        \cup {<<t, IPlus, INum("1"), ISemi>> : t \in PrimaryTokens}

\* ( a1 , a2 , ... )
ArgumentList(args) ==
    IF args = <<>> THEN <<ILParen, IRParen>>
    ELSE <<ILParen>>
             \o [i \in 1..(2 * Len(args) - 1) |->
                    IF i % 2 = 1 THEN args[(i + 1) \div 2] ELSE IComma]
             \o <<IRParen>>

RECURSIVE ArgumentLists(_)
ArgumentLists(lists) ==
    IF lists = <<>> THEN <<>>
    ELSE ArgumentList(Head(lists)) \o ArgumentLists(Tail(lists))

\* <callee> ( .. ) ( .. ) ... ;
CallStatement(callee, lists) ==
    <<callee>> \o ArgumentLists(lists) \o <<ISemi>>

Callees == {IId("f"), INum("1"), IStr}

\* the argument lists 2, 3, ... of every length up to MaxArgs
CallArguments ==
    {[i \in 1..n |-> INum(DigitOf(i + 1))] : n \in 0..MaxArgs}

CallInputs ==
    {CallStatement(callee, lists) :
        callee \in Callees,
        lists \in SeqsUpTo(CallArguments, MaxCalls) \ {<<>>}}

IFn == Item("Function", "fn")
IOr == Item("Or", "or")
IAnd == Item("And", "and")

IIf == Item("If", "if")
IElse == Item("Else", "else")
IWhile == Item("While", "while")
IReturn == Item("Return", "return")

\* one statement of each form, by the name of the form; the lexer has no
\* keyword break or continue, the two words are identifiers
StatementForm(form) ==
    CASE form = "Print" -> <<IPrint, INum("1"), ISemi>>
      [] form = "Block" -> <<ILBrace, INum("1"), ISemi, IRBrace>>
      [] form = "If" -> <<IIf, ILParen, ITrue, IRParen, INum("1"), ISemi>>
      [] form = "IfElse" ->
             <<IIf, ILParen, ITrue, IRParen, INum("1"), ISemi,
               IElse, INum("2"), ISemi>>
      [] form = "While" ->
             <<IWhile, ILParen, ITrue, IRParen, INum("1"), ISemi>>
      [] form = "Return" -> <<IReturn, INum("1"), ISemi>>
      [] form = "ReturnNothing" -> <<IReturn, ISemi>>
      [] form = "Break" -> <<IId("break"), ISemi>>
      [] form = "Continue" -> <<IId("continue"), ISemi>>
      [] form = "Function" ->
             <<IFn, IId("f"), ILParen, IId("x"), IRParen,
               ILBrace, INum("1"), ISemi, IRBrace>>
      [] form = "Variable" -> <<ILet, IId("x"), IEqual, INum("1"), ISemi>>
      [] form = "VariableNothing" -> <<ILet, IId("x"), ISemi>>
      [] form = "Expression" -> <<INum("1"), ISemi>>

StatementForms ==
    {"Print", "Block", "If", "IfElse", "While", "Return", "ReturnNothing",
     "Break", "Continue", "Function", "Variable", "VariableNothing",
     "Expression"}

StatementInputs == {StatementForm(form) : form \in StatementForms}

LogicalOperand(i) == <<ITrue, IFalse, INil>>[((i - 1) % 3) + 1]

\* true op false op nil op true ... ;  the operands joined by the n
\* operators of ops
LogicalChain(ops) ==
    [i \in 1..(2 * Len(ops) + 1) |->
        IF i % 2 = 1 THEN LogicalOperand((i + 1) \div 2) ELSE ops[i \div 2]]
        \o <<ISemi>>

LogicalInputs ==
    {LogicalChain(ops) : ops \in SeqsUpTo({IOr, IAnd}, MaxOps) \ {<<>>}}

\* 1 ( 2 , 2 , ... , 2 ) ;  with n arguments
LongCall(n) == CallStatement(INum("1"), <<[i \in 1..n |-> INum("2")]>>)

\* fn f ( x , x , ... , x ) { }  with n parameters
LongFunction(n) ==
    <<IFn, IId("f")>> \o ArgumentList([i \in 1..n |-> IId("x")])
        \o <<ILBrace, IRBrace>>

\* lists of exactly the maximum length and of one entry more
CapInputs ==
    {LongCall(n) : n \in {MAX_ARGS, MAX_ARGS + 1}}
        \cup {LongFunction(n) : n \in {MAX_PARAMS, MAX_PARAMS + 1}}

ParserInputs ==
    ShortInputs \cup ArithmeticInputs \cup BadAssignmentInputs
        \cup ForInputs \cup AssignmentInputs \cup PrimaryInputs
        \cup CallInputs \cup CapInputs \cup LogicalInputs
        \cup StatementInputs

LexerIdle ==
    /\ source = <<>>
    /\ pos = 1
    /\ tokens = <<>>
    /\ spans = <<>>
    /\ line = 1
    /\ column = 1
    /\ pc = "idle"

\* Parser::new(tokens)
ParserInit ==
    /\ p_tokens \in {MkTokens(items) : items \in ParserInputs}
    /\ current = 0
    /\ statements = <<>>
    /\ result = NoResult
    /\ ppc = "parse"
    /\ LexerIdle
    /\ AnalyzerIdle

ParserNext ==
    \/ ParseDeclaration
    \/ ParseError
    \/ ParsePanic
    \/ ParseReturn

ParserSpec == ParserInit /\ [][ParserNext]_vars

----------------------------------------------------------------------------
(* Analyzer::analyze (src/lang/semantic_analyzer.rs).  The recursion of    *)
(* analyze_statement and analyze_expression is unfolded into steps: `work` *)
(* holds what the pending calls have still to do, and each action is one   *)
(* match arm, taken on the item at the head of `work`.  A name is the      *)
(* lexeme of its token.                                                    *)

VariableEntry(name, is_initialized) ==
    [name |-> name, is_initialized |-> is_initialized]

\* enum Error
VariableRedeclaration(name) ==
    [error |-> "VariableRedeclaration", name |-> name]

VariableNotFound(name, ln, col) ==
    [error |-> "VariableNotFound", name |-> name, line |-> ln,
     column |-> col]

UninitializedVariable(name, ln, col) ==
    [error |-> "UninitializedVariable", name |-> name, line |-> ln,
     column |-> col]

NoActiveScope == [error |-> "NoActiveScope"]

\* Display for Error: the format string and the values written into it
to_string(e) ==
    CASE e.error = "VariableRedeclaration" ->
            [text |-> "Variable '{}' is already declared in this scope.",
             args |-> <<e.name>>]
      [] e.error = "VariableNotFound" ->
            [text |-> "Variable '{}' is not defined. ({}:{})",
             args |-> <<e.name, e.line, e.column>>]
      [] e.error = "UninitializedVariable" ->
            [text |-> "Variable '{}' is used before being initialized. ({}:{})",
             args |-> <<e.name, e.line, e.column>>]
      [] e.error = "NoActiveScope" ->
            [text |-> "No active scope.", args |-> <<>>]

\* Environment::new
new_scopes == <<(<<>>)>>

\* scope.iter().any(|entry| entry.name == name)
Binds(scope, name) == \E i \in 1..Len(scope) : scope[i].name = name

\* a define that pushes the entry without looking at the scope
define_unchecked(sc, name, is_initialized) ==
    IF sc = <<>>
    THEN [ok |-> FALSE, error |-> NoActiveScope, scopes |-> sc]
    ELSE [ok |-> TRUE, error |-> NoActiveScope,
          scopes |-> [sc EXCEPT ![Len(sc)] =
                         Append(@, VariableEntry(name, is_initialized))]]

\* a define that refuses a name bound in any scope of the stack
define_checking_all_scopes(sc, name, is_initialized) ==
    IF sc = <<>>
    THEN [ok |-> FALSE, error |-> NoActiveScope, scopes |-> sc]
    ELSE IF \E f \in 1..Len(sc) : Binds(sc[f], name)
    THEN [ok |-> FALSE, error |-> VariableRedeclaration(name), scopes |-> sc]
    ELSE [ok |-> TRUE, error |-> NoActiveScope,
          scopes |-> [sc EXCEPT ![Len(sc)] =
                         Append(@, VariableEntry(name, is_initialized))]]

\* Environment::define, on the scope stack sc
define(sc, name, is_initialized) ==
    IF sc = <<>>
    THEN [ok |-> FALSE, error |-> NoActiveScope, scopes |-> sc]
    ELSE IF Binds(sc[Len(sc)], name)
    THEN [ok |-> FALSE, error |-> VariableRedeclaration(name), scopes |-> sc]
    ELSE [ok |-> TRUE, error |-> NoActiveScope,
          scopes |-> [sc EXCEPT ![Len(sc)] =
                         Append(@, VariableEntry(name, is_initialized))]]

\* a begin_scope that pushes no frame
begin_scope_without_frame(sc) == sc

\* Environment::begin_scope
begin_scope(sc) == Append(sc, <<>>)

\* an end_scope that leaves the innermost frame in place
end_scope_keeping_frame(sc) == sc

\* Environment::end_scope: Vec::pop, which leaves an empty vector empty
end_scope(sc) == IF sc = <<>> THEN sc ELSE SubSeq(sc, 1, Len(sc) - 1)

\* a get that searches the scopes from the outermost inwards
get_outermost_first(sc, name) ==
    LET hits == {f \in 1..Len(sc) : Binds(sc[f], name)}
    IN  IF hits = {} THEN [frame |-> 0, entry |-> None]
        ELSE LET f == CHOOSE g \in hits : \A h \in hits : g <= h
                 i == CHOOSE j \in 1..Len(sc[f]) : sc[f][j].name = name
             IN  [frame |-> f, entry |-> Some(sc[f][i])]

\* Environment::get: the last entry of that name in the innermost scope
\* that has one; frame is that scope's index, 0 for None
get(sc, name) ==
    LET hits == {f \in 1..Len(sc) : Binds(sc[f], name)}
    IN  IF hits = {} THEN [frame |-> 0, entry |-> None]
        ELSE LET f == CHOOSE g \in hits : \A h \in hits : h <= g
                 i == CHOOSE j \in 1..Len(sc[f]) :
                          /\ sc[f][j].name = name
                          /\ \A k \in (j + 1)..Len(sc[f]) :
                                sc[f][k].name # name
             IN  [frame |-> f, entry |-> Some(sc[f][i])]

\* for param in parameters { environment.define(param.lexeme, false)?; }
RECURSIVE define_parameters(_, _)
define_parameters(sc, parameters) ==
    IF parameters = <<>>
    THEN [ok |-> TRUE, error |-> NoActiveScope, scopes |-> sc]
    ELSE LET d == define(sc, Head(parameters).lexeme, FALSE)
         IN  IF ~d.ok THEN d
             ELSE define_parameters(d.scopes, Tail(parameters))

\* the items of `work`
StatementItem(s) == [item |-> "statement", node |-> s]

ExpressionItem(e) == [item |-> "expression", node |-> e]

EndScopeItem == [item |-> "end_scope"]

AssignTargetItem(name) == [item |-> "assign_target", name |-> name]

StatementItems(ss) == [i \in 1..Len(ss) |-> StatementItem(ss[i])]

ExpressionItems(es) == [i \in 1..Len(es) |-> ExpressionItem(es[i])]

AtStatement(kind) ==
    /\ apc = "analyze"
    /\ work # <<>>
    /\ work[1].item = "statement"
    /\ work[1].node.stmt = kind

AtExpression(kind) ==
    /\ apc = "analyze"
    /\ work # <<>>
    /\ work[1].item = "expression"
    /\ work[1].node.expr = kind

\* the arm goes on: its calls come before what was pending
Continue(items, sc) ==
    /\ work' = items \o Tail(work)
    /\ scopes' = sc
    /\ UNCHANGED <<a_result, apc>>

\* an Err travels up through every `?` and analyze returns its message
Fail(e, sc) ==
    /\ a_result' = [kind |-> "Err", message |-> to_string(e)]
    /\ apc' = "done"
    /\ scopes' = sc
    /\ UNCHANGED work

\* Stmt::Expression
AnalyzeStmtExpression ==
    /\ AtStatement("Expression")
    /\ Continue(<<ExpressionItem(work[1].node.expression)>>, scopes)
    /\ UNCHANGED <<ast, lookups, lexvars, parvars>>

\* a Variable arm that binds the name as uninitialized while the
\* initializer is analyzed
AnalyzeStmtVariableDeclaredOnly ==
    /\ AtStatement("Variable")
    /\ LET st == work[1].node
           d == define(scopes, st.name.lexeme, FALSE)
       IN  IF ~d.ok THEN Fail(d.error, d.scopes)
           ELSE Continue(IF st.initializer = None THEN <<>>
                         ELSE <<ExpressionItem(st.initializer[1])>>,
                         d.scopes)
    /\ UNCHANGED <<ast, lookups, lexvars, parvars>>

\* Stmt::Variable: define first, then the initializer
AnalyzeStmtVariable ==
    /\ AtStatement("Variable")
    /\ LET st == work[1].node
           d == define(scopes, st.name.lexeme, st.initializer # None)
       IN  IF ~d.ok THEN Fail(d.error, d.scopes)
           ELSE Continue(IF st.initializer = None THEN <<>>
                         ELSE <<ExpressionItem(st.initializer[1])>>,
                         d.scopes)
    /\ UNCHANGED <<ast, lookups, lexvars, parvars>>

\* Stmt::Block: begin_scope, the statements, end_scope
AnalyzeStmtBlock ==
    /\ AtStatement("Block")
    /\ Continue(StatementItems(work[1].node.statements) \o <<EndScopeItem>>,
                begin_scope(scopes))
    /\ UNCHANGED <<ast, lookups, lexvars, parvars>>

\* environment.end_scope() at the end of a Block or Function arm
AnalyzeEndScope ==
    /\ apc = "analyze"
    /\ work # <<>>
    /\ work[1].item = "end_scope"
    /\ Continue(<<>>, end_scope(scopes))
    /\ UNCHANGED <<ast, lookups, lexvars, parvars>>

\* Stmt::If
AnalyzeStmtIf ==
    /\ AtStatement("If")
    /\ LET st == work[1].node
       IN  Continue(<<ExpressionItem(st.condition),
                      StatementItem(st.then_branch)>>
                    \o IF st.else_branch = None THEN <<>>
                       ELSE <<StatementItem(st.else_branch[1])>>,
                    scopes)
    /\ UNCHANGED <<ast, lookups, lexvars, parvars>>

\* Stmt::While
AnalyzeStmtWhile ==
    /\ AtStatement("While")
    /\ Continue(<<ExpressionItem(work[1].node.condition),
                  StatementItem(work[1].node.body)>>, scopes)
    /\ UNCHANGED <<ast, lookups, lexvars, parvars>>

\* Stmt::Function: define the name, begin_scope, define the parameters,
\* the body, end_scope
AnalyzeStmtFunction ==
    /\ AtStatement("Function")
    /\ LET st == work[1].node
           d == define(scopes, st.name.lexeme, FALSE)
       IN  IF ~d.ok THEN Fail(d.error, d.scopes)
           ELSE LET ps == define_parameters(begin_scope(d.scopes),
                                            st.parameters)
                IN  IF ~ps.ok THEN Fail(ps.error, ps.scopes)
                    ELSE Continue(<<StatementItem(st.body), EndScopeItem>>,
                                  ps.scopes)
    /\ UNCHANGED <<ast, lookups, lexvars, parvars>>

\* Stmt::Return
AnalyzeStmtReturn ==
    /\ AtStatement("Return")
    /\ Continue(IF work[1].node.value = None THEN <<>>
                ELSE <<ExpressionItem(work[1].node.value[1])>>, scopes)
    /\ UNCHANGED <<ast, lookups, lexvars, parvars>>

\* Expr::Binary
AnalyzeExprBinary ==
    /\ AtExpression("Binary")
    /\ Continue(<<ExpressionItem(work[1].node.left),
                  ExpressionItem(work[1].node.right)>>, scopes)
    /\ UNCHANGED <<ast, lookups, lexvars, parvars>>

\* Expr::Logical
AnalyzeExprLogical ==
    /\ AtExpression("Logical")
    /\ Continue(<<ExpressionItem(work[1].node.left),
                  ExpressionItem(work[1].node.right)>>, scopes)
    /\ UNCHANGED <<ast, lookups, lexvars, parvars>>

\* Expr::Grouping
AnalyzeExprGrouping ==
    /\ AtExpression("Grouping")
    /\ Continue(<<ExpressionItem(work[1].node.expression)>>, scopes)
    /\ UNCHANGED <<ast, lookups, lexvars, parvars>>

\* Expr::Literal: Ok for every Literal
AnalyzeExprLiteral ==
    /\ AtExpression("Literal")
    /\ work[1].node.value.literal \in {"Number", "String", "Boolean", "Nil"}
    /\ Continue(<<>>, scopes)
    /\ UNCHANGED <<ast, lookups, lexvars, parvars>>

\* Expr::Unary
AnalyzeExprUnary ==
    /\ AtExpression("Unary")
    /\ Continue(<<ExpressionItem(work[1].node.right)>>, scopes)
    /\ UNCHANGED <<ast, lookups, lexvars, parvars>>

Lookup(name, g) == [name |-> name.lexeme, frame |-> g.frame]

\* Expr::Variable
AnalyzeExprVariable ==
    /\ AtExpression("Variable")
    /\ LET name == work[1].node.name
           g == get(scopes, name.lexeme)
       IN  /\ lookups' = Append(lookups, Lookup(name, g))
           /\ IF g.entry = None
              THEN Fail(VariableNotFound(name.lexeme, name.line,
                                         name.column), scopes)
              ELSE IF ~g.entry[1].is_initialized
              THEN Fail(UninitializedVariable(name.lexeme, name.line,
                                              name.column), scopes)
              ELSE Continue(<<>>, scopes)
    /\ UNCHANGED <<ast, lexvars, parvars>>

\* Expr::Assign: the value first, then the target
AnalyzeExprAssign ==
    /\ AtExpression("Assign")
    /\ Continue(<<ExpressionItem(work[1].node.value),
                  AssignTargetItem(work[1].node.name)>>, scopes)
    /\ UNCHANGED <<ast, lookups, lexvars, parvars>>

\* the rest of the Expr::Assign arm: a target that is found has the Result
\* of its initialization check unwrapped, and unwrap panics on the Err
AnalyzeAssignTarget ==
    /\ apc = "analyze"
    /\ work # <<>>
    /\ work[1].item = "assign_target"
    /\ LET name == work[1].name
           g == get(scopes, name.lexeme)
       IN  /\ lookups' = Append(lookups, Lookup(name, g))
           /\ IF g.entry = None
              THEN Fail(VariableNotFound(name.lexeme, name.line,
                                         name.column), scopes)
              ELSE IF ~g.entry[1].is_initialized
              THEN /\ apc' = "panic"
                   /\ UNCHANGED <<work, scopes, a_result>>
              ELSE Continue(<<>>, scopes)
    /\ UNCHANGED <<ast, lexvars, parvars>>

\* Expr::Call: the callee, then the arguments in order
AnalyzeExprCall ==
    /\ AtExpression("Call")
    /\ Continue(<<ExpressionItem(work[1].node.callee)>>
                \o ExpressionItems(work[1].node.arguments), scopes)
    /\ UNCHANGED <<ast, lookups, lexvars, parvars>>

\* every statement was analyzed: Ok(())
AnalyzeReturnOk ==
    /\ apc = "analyze"
    /\ work = <<>>
    /\ a_result' = [kind |-> "Ok"]
    /\ apc' = "done"
    /\ UNCHANGED <<ast, scopes, work, lookups, lexvars, parvars>>

----------------------------------------------------------------------------
(* The programs analyze is run on: syntax trees over the names x and y,    *)
(* built from up to MaxPrefix simple statements, one main statement of any *)
(* kind, and at most one simple statement after it.  A declared name       *)
(* stands at line 1, a used one at line 2, the column telling x from y.    *)

NameColumn(n) == IF n = "x" THEN 5 ELSE 7

DeclName(n) == Token("Identifier", <<n>>, None, 1, NameColumn(n))

UseName(n) == Token("Identifier", <<n>>, None, 2, NameColumn(n))

One == Literal(LitNumber(<<"1">>))

Use(n) == Variable(UseName(n))

Let(n, initializer) == StmtVariable(DeclName(n), initializer)

Set(n, e) == StmtExpression(Assign(UseName(n), e))

MinusToken == Token("Minus", <<"-">>, None, 2, 1)

PlusToken == Token("Plus", <<"+">>, None, 2, 6)

OrToken == Token("Or", <<"o", "r">>, None, 2, 6)

ParenToken == Token("RightParen", <<")">>, None, 2, 9)

ReturnToken == Token("Return", <<"r", "e", "t", "u", "r", "n">>, None, 2, 1)

\* let x;  let x = 1;  let y = x;  let x = x;  x;  y;  x = 1;
CoreStmts ==
    {Let("x", None), Let("x", Some(One)), Let("y", Some(Use("x"))),
     Let("x", Some(Use("x"))), StmtExpression(Use("x")),
     StmtExpression(Use("y")), Set("x", One)}

\* one expression statement for every other kind of expression
ExprStmts ==
    {StmtExpression(e) :
        e \in {One, Literal(LitString(<<DQ, DQ>>)), Literal(LitBoolean(TRUE)),
               Literal(LitNil), Unary(MinusToken, Use("x")),
               Binary(Use("x"), PlusToken, Use("y")),
               Logical(Use("x"), OrToken, One), Grouping(Use("y")),
               Call(Use("x"), ParenToken, <<Use("y"), One>>),
               Assign(UseName("y"), Use("x"))}}

Blocks == {StmtBlock(ss) : ss \in SeqsUpTo(CoreStmts, MaxBlockLen)}

\* { c { d } }  and  { { c } d }
NestedBlocks ==
    {StmtBlock(<<c, StmtBlock(<<d>>)>>) : c \in CoreStmts, d \in CoreStmts}
        \cup {StmtBlock(<<StmtBlock(<<c>>), d>>) :
                 c \in CoreStmts, d \in CoreStmts}

FunctionBodies ==
    {StmtBlock(<<>>)}
        \cup {StmtBlock(<<c>>) :
                 c \in {StmtExpression(Use("x")), StmtExpression(Use("y")),
                        Let("x", None), Set("x", One),
                        StmtReturn(ReturnToken, Some(Use("x"))),
                        StmtExpression(Call(Use("x"), ParenToken, <<One>>))}}

Functions ==
    {StmtFunction(DeclName(f), [i \in 1..Len(ps) |-> DeclName(ps[i])], b) :
        f \in {"f", "x"}, ps \in SeqsUpTo({"x", "y"}, MaxParams),
        b \in FunctionBodies}

Branches ==
    {StmtIf(c, StmtBlock(<<t>>), e) :
        c \in {One, Use("x")}, t \in CoreStmts,
        e \in {None, Some(StmtExpression(Use("y")))}}
        \cup {StmtWhile(c, StmtBlock(<<t>>)) :
                 c \in {One, Use("x")}, t \in CoreStmts}
        \cup {StmtReturn(ReturnToken, v) : v \in {None, Some(Use("x"))}}

MainStmts ==
    CoreStmts \cup ExprStmts \cup Blocks \cup NestedBlocks \cup Functions
        \cup Branches

Suffixes == {<<>>, <<StmtExpression(Use("x"))>>, <<Set("x", One)>>}

Programs ==
    {pre \o <<m>> \o suf :
        pre \in SeqsUpTo(CoreStmts, MaxPrefix), m \in MainStmts,
        suf \in Suffixes}

\* Analyzer::analyze(&statements): a new Environment, the statements in
\* order
AnalyzerInit ==
    /\ ast \in Programs
    /\ scopes = new_scopes
    /\ work = StatementItems(ast)
    /\ lookups = <<>>
    /\ a_result = NoResult
    /\ apc = "analyze"
    /\ LexerIdle
    /\ ParserIdle

AnalyzerNext ==
    \/ AnalyzeStmtExpression
    \/ AnalyzeStmtVariable
    \/ AnalyzeStmtBlock
    \/ AnalyzeEndScope
    \/ AnalyzeStmtIf
    \/ AnalyzeStmtWhile
    \/ AnalyzeStmtFunction
    \/ AnalyzeStmtReturn
    \/ AnalyzeExprBinary
    \/ AnalyzeExprLogical
    \/ AnalyzeExprGrouping
    \/ AnalyzeExprLiteral
    \/ AnalyzeExprUnary
    \/ AnalyzeExprVariable
    \/ AnalyzeExprAssign
    \/ AnalyzeAssignTarget
    \/ AnalyzeExprCall
    \/ AnalyzeReturnOk

AnalyzerSpec == AnalyzerInit /\ [][AnalyzerNext]_vars

----------------------------------------------------------------------------
(* Properties of tokenize.                                                 *)

TokenTypes(ts) == [i \in 1..Len(ts) |-> ts[i].token_type]

Lexemes(ts) == [i \in 1..Len(ts) |-> ts[i].lexeme]

\* the characters of s that are not spaces
RECURSIVE RemoveSpaces(_)
RemoveSpaces(s) ==
    IF s = <<>> THEN <<>>
    ELSE IF Head(s) = SP THEN RemoveSpaces(Tail(s))
    ELSE <<Head(s)>> \o RemoveSpaces(Tail(s))

\* the number of newline characters before index p of the source
NewlinesBefore(p) == Cardinality({j \in 1..(p - 1) : source[j] = NL})

\* the number of characters before index p on p's line
CharsBeforeOnLine(p) ==
    Cardinality({j \in 1..(p - 1) :
                    \A k \in j..(p - 1) : source[k] # NL})

\* C1: tokenize never fails: on every source it runs to its return and
\* never aborts.
C1_TokenizeNeverFails == pc # "panic"

\* C2: the sequence tokenize returns holds exactly one Eof token, and that
\* token is its last element, also when a string literal is never closed.
C2_EofTerminatesTokens ==
    pc = "done" =>
        /\ Len(tokens) >= 1
        /\ tokens[Len(tokens)].token_type = "Eof"
        /\ Cardinality({i \in 1..Len(tokens) :
                           tokens[i].token_type = "Eof"}) = 1

\* a returned scan of a source with an unpaired quote followed by text
C2_Witness ==
    /\ pc = "done"
    /\ source = <<DQ, "a">>
    /\ Len(tokens) = 3

TwoCharType(c) ==
    CASE c = "!" -> "BangEqual"
      [] c = "=" -> "EqualEqual"
      [] c = "<" -> "LessEqual"
      [] c = ">" -> "GreaterEqual"

OneCharType(c) ==
    CASE c = "!" -> "Bang"
      [] c = "=" -> "Equal"
      [] c = "<" -> "Less"
      [] c = ">" -> "Greater"

\* C3: a token scanned at one of ! = < > is the two-character kind, with
\* two characters consumed, when the next character is =, and otherwise
\* the bare kind with one character consumed and that character as lexeme.
C3_OperatorLookaheadDecides ==
    \A i \in 1..Len(tokens) :
        LET s == spans[i].from
        IN  (s <= Len(source) /\ source[s] \in {"!", "=", "<", ">"}) =>
                IF s + 1 <= Len(source) /\ source[s + 1] = "="
                THEN /\ tokens[i].token_type = TwoCharType(source[s])
                     /\ spans[i].to = s + 2
                ELSE /\ tokens[i].token_type = OneCharType(source[s])
                     /\ spans[i].to = s + 1
                     /\ tokens[i].lexeme = <<source[s]>>

\* C4: every token's column is 1 plus the number of characters that
\* precede its first character on its line.
C4_ColumnCountsEveryCharacter ==
    \A i \in 1..Len(tokens) :
        tokens[i].column = 1 + CharsBeforeOnLine(spans[i].from)

\* C5: every token's line (the final Eof's too) is 1 plus the number of
\* newline characters before it in the source, whether they stand between
\* tokens or inside string literals.
C5_LineCountsEveryNewline ==
    \A i \in 1..Len(tokens) :
        tokens[i].line = 1 + NewlinesBefore(spans[i].from)

IsNumberLexeme(s) ==
    /\ Len(s) >= 1
    /\ s[1] \in Digits
    /\ \A i \in 1..Len(s) : s[i] \in Digits \cup {"."}
    /\ DotCount(s) <= 1

\* C6: a token scanned at a digit is a Number whose lexeme is the longest
\* run of digits with at most one decimal point, a second point ending
\* it; so 1.2.3 scans to Number 1.2, Dot, Number 3, Eof.
C6_NumberStopsAtSecondPoint ==
    /\ \A i \in 1..Len(tokens) :
          LET s == spans[i].from
              e == spans[i].to
          IN  (s <= Len(source) /\ source[s] \in Digits) =>
                  /\ tokens[i].token_type = "Number"
                  /\ tokens[i].lexeme = SubSeq(source, s, e - 1)
                  /\ IsNumberLexeme(tokens[i].lexeme)
                  /\ e <= Len(source) => source[e] \notin Digits
                  /\ (e <= Len(source) /\ source[e] = ".") =>
                         DotCount(tokens[i].lexeme) = 1
    /\ (pc = "done" /\ source = <<"1", ".", "2", ".", "3">>) =>
          /\ TokenTypes(tokens) = <<"Number", "Dot", "Number", "Eof">>
          /\ Lexemes(tokens) = <<(<<"1", ".", "2">>), (<<".">>), (<<"3">>), (<<>>)>>

\* the scan of 1.2.3 has returned
C6_Witness ==
    /\ pc = "done"
    /\ source = <<"1", ".", "2", ".", "3">>
    /\ Len(tokens) = 4

\* C7: for valid lexemes written back-to-back with single spaces between
\* them, tokenize returns, and the concatenation of the returned tokens'
\* lexemes is the input without the injected spaces.
C7_LexemeRoundTrip ==
    (pc \in {"done", "panic"} /\ source \in SpacedLexemeSources) =>
        /\ pc = "done"
        /\ Concat(Lexemes(tokens)) = RemoveSpaces(source)

----------------------------------------------------------------------------
(* Properties of Parser::parse.                                            *)

ArithmeticTokenInputs == {MkTokens(items) : items \in ArithmeticInputs}

BadAssignmentTokenInputs == {MkTokens(items) : items \in BadAssignmentInputs}

\* the tokens of `let x = 1 + 2 * 3;`
LetExample == MkTokens(ArithmeticDecl(<<IPlus, IStar>>))

\* the tokens of `1 = 2;`
BadAssignExample == MkTokens(BadAssignment(<<INum("1")>>, <<INum("2")>>))

\* the tokens of `for (let i = 0; i < 3; i = i + 1) print i;`
ForExample ==
    MkTokens(ForStatement(<<ILet, IId("i"), IEqual, INum("0"), ISemi>>,
                          <<IId("i"), ILess, INum("3")>>,
                          <<IId("i"), IEqual, IId("i"), IPlus, INum("1")>>,
                          <<IPrint, IId("i"), ISemi>>))

NumberLiteral(d) == Literal(LitNumber(<<d>>))

IsAdditive(e) ==
    e.expr = "Binary" /\ e.operator.token_type \in {"Plus", "Minus"}

\* e groups its operators as precedence and left associativity demand: no
\* sum or difference is an operand of a product or quotient, and no right
\* operand is a binary expression of the same precedence
RECURSIVE WellGrouped(_)
WellGrouped(e) ==
    IF e.expr = "Literal" THEN TRUE
    ELSE /\ e.expr = "Binary"
         /\ IF IsAdditive(e)
            THEN /\ WellGrouped(e.left)
                 /\ WellGrouped(e.right)
                 /\ ~IsAdditive(e.right)
            ELSE /\ e.operator.token_type \in {"Star", "Slash"}
                 /\ WellGrouped(e.left)
                 /\ ~IsAdditive(e.left)
                 /\ e.right.expr = "Literal"

\* the literal values and operator tokens of e, left to right
RECURSIVE InOrder(_)
InOrder(e) ==
    IF e.expr = "Literal" THEN <<e.value>>
    ELSE InOrder(e.left) \o <<e.operator>> \o InOrder(e.right)

\* the same for the tokens from..to of the input
TokensInOrder(from, to) ==
    [i \in 1..(to - from + 1) |->
        LET t == p_tokens[from + i - 1]
        IN  IF t.token_type = "Number" THEN LitNumber(F64ToString(t.lexeme))
            ELSE t]

\* C8: `let x = <literals joined by + - * />;` parses to one Variable
\* declaration whose initializer keeps the tokens in order, with * and /
\* binding tighter than + and -, and equal precedence grouping left to
\* right; `let x = 1 + 2 * 3;` gives Binary(+, 1, Binary(*, 2, 3)).
C8_PrecedenceAndAssociativity ==
    /\ (ppc \in {"done", "panic"} /\ p_tokens \in ArithmeticTokenInputs) =>
          /\ ppc = "done"
          /\ result.kind = "Ok"
          /\ Len(result.statements) = 1
          /\ result.statements[1].stmt = "Variable"
          /\ result.statements[1].name = p_tokens[2]
          /\ result.statements[1].initializer # None
          /\ WellGrouped(result.statements[1].initializer[1])
          /\ InOrder(result.statements[1].initializer[1])
                = TokensInOrder(4, Len(p_tokens) - 2)
    /\ (ppc \in {"done", "panic"} /\ p_tokens = LetExample) =>
          result = ResultOk(<<StmtVariable(p_tokens[2],
                        Some(Binary(NumberLiteral("1"), p_tokens[5],
                                 Binary(NumberLiteral("2"), p_tokens[7],
                                        NumberLiteral("3")))))>>)

\* parse has returned Ok for `let x = 1 + 2 * 3;`
C8_Witness ==
    /\ ppc = "done"
    /\ p_tokens = LetExample
    /\ result.kind = "Ok"

\* C9: an expression that is no bare variable reference, followed by `=`
\* and a value expression (as in `1 = 2;`), makes parse fail with the
\* invalid-assignment-target diagnostic; no Assign node is returned.
C9_InvalidAssignmentTarget ==
    (ppc \in {"done", "panic"} /\ p_tokens \in BadAssignmentTokenInputs) =>
        /\ ppc = "done"
        /\ result.kind = "Err"
        /\ result.error.error = "UnexpectedToken"
        /\ result.error.message.text = "Invalid assignment target!"
        /\ result.error.expected = <<"Identifier">>
        /\ result.error.token.token_type = "Equal"

\* parse has returned Err for `1 = 2;`
C9_Witness ==
    /\ ppc = "done"
    /\ p_tokens = BadAssignExample
    /\ result.kind = "Err"

\* C10: `for (let i = 0; i < 3; i = i + 1) print i;` parses to a Block of
\* the let declaration and a While whose condition is `i < 3` and whose
\* body is a Block of the print statement and the Expression statement of
\* `i = i + 1`.
C10_ForDesugarsToWhile ==
    (ppc \in {"done", "panic"} /\ p_tokens = ForExample) =>
        /\ ppc = "done"
        /\ result.kind = "Ok"
        /\ Len(result.statements) = 1
        /\ result.statements[1].stmt = "Block"
        /\ Len(result.statements[1].statements) = 2
        /\ result.statements[1].statements[1].stmt = "Variable"
        /\ result.statements[1].statements[2].stmt = "While"
        /\ result.statements[1].statements[2].condition.expr = "Binary"
        /\ result.statements[1].statements[2].body.stmt = "Block"
        /\ Len(result.statements[1].statements[2].body.statements) = 2
        /\ result.statements[1].statements[2].body.statements[2]
              = StmtExpression(
                    Assign(p_tokens[12],
                           Binary(Variable(p_tokens[14]), p_tokens[15],
                                  NumberLiteral("1"))))

\* C11: parse never aborts: on every token sequence that ends with Eof it
\* returns Ok or Err, and the cursor stays a valid index into the tokens.
C11_ParseNeverAborts ==
    /\ ppc # "panic"
    /\ ppc \in {"parse", "done"} => Valid(current)

\* C12: parse halts at the first syntactic error: the step on which a
\* declaration fails ends the parse with exactly that declaration's
\* diagnostic as the result, the statements parsed so far are not part of
\* the result, and nothing is parsed once parse has returned.
C12_ParseHaltsAtFirstError ==
    [][/\ ppc # "done"
       /\ (/\ ppc = "parse"
           /\ Valid(current)
           /\ ~is_at_end(current)
           /\ declaration(current).st = "err") =>
              /\ ppc' = "done"
              /\ result' = [kind |-> "Err",
                            error |-> declaration(current).err[1]]
              /\ statements' = statements]_vars

\* parse has returned Err after a declaration had been parsed, with tokens
\* left unread
C12_Witness ==
    /\ ppc = "done"
    /\ result.kind = "Err"
    /\ Len(statements) >= 1
    /\ current + 2 < Len(p_tokens)

----------------------------------------------------------------------------
(* Properties of Analyzer::analyze.                                        *)

\* the names bound in one frame are pairwise distinct
DistinctNames(scope) ==
    \A i, j \in 1..Len(scope) : scope[i].name = scope[j].name => i = j

\* the innermost frame
CurrentScope == scopes[Len(scopes)]

\* analyze is about to declare a name the current frame already binds
Redeclares ==
    /\ apc = "analyze"
    /\ work # <<>>
    /\ work[1].item = "statement"
    /\ work[1].node.stmt \in {"Variable", "Function"}
    /\ Binds(CurrentScope, work[1].node.name.lexeme)

ErrResult(e) == [kind |-> "Err", message |-> to_string(e)]

\* C13: declaring a name that the current scope frame already binds (as
\* the second let of `let x = 1; let x = 2;`, at top level or in a block)
\* makes analyze return the redeclaration error for that name; so the
\* names bound in any one frame are always pairwise distinct.
C13_RedeclarationInOneFrame ==
    /\ [](\A f \in 1..Len(scopes) : DistinctNames(scopes[f]))
    /\ [][Redeclares =>
            /\ apc' = "done"
            /\ a_result' = ErrResult(VariableRedeclaration(
                                         work[1].node.name.lexeme))
            /\ scopes' = scopes]_vars

\* analyze has returned the redeclaration error for the second let of
\* { let x = 1; let x = 1; }
C13_Witness ==
    /\ apc = "done"
    /\ ast = <<StmtBlock(<<Let("x", Some(One)), Let("x", Some(One))>>)>>
    /\ a_result = ErrResult(VariableRedeclaration(<<"x">>))
    /\ Len(scopes) = 2

\* let x = 1; { let x = 1; x; }
ShadowExample ==
    <<Let("x", Some(One)),
      StmtBlock(<<Let("x", Some(One)), StmtExpression(Use("x"))>>)>>

\* C14: a name bound in an outer frame can be declared again in an inner
\* frame: no declaration fails with a redeclaration error while the
\* current frame does not bind its name, `let x = 1; { let x = 2; x; }` is
\* accepted, and its use of x resolves to the binding of the inner frame.
C14_ShadowingAccepted ==
    /\ [][(/\ apc = "analyze"
           /\ work # <<>>
           /\ work[1].item = "statement"
           /\ work[1].node.stmt = "Variable"
           /\ ~Binds(CurrentScope, work[1].node.name.lexeme)) =>
              /\ apc' = "analyze"
              /\ Binds(scopes'[Len(scopes')], work[1].node.name.lexeme)
              /\ Len(scopes') = Len(scopes)]_vars
    /\ []((apc \in {"done", "panic"} /\ ast = ShadowExample) =>
              /\ a_result = [kind |-> "Ok"]
              /\ lookups = <<[name |-> <<"x">>, frame |-> 2]>>)

\* inside the block of let x = 1; { let x = 1; x; }: x is bound in both
\* frames and the use of x has been resolved
C14_Witness ==
    /\ ast = ShadowExample
    /\ Len(scopes) = 2
    /\ Binds(scopes[1], <<"x">>)
    /\ Binds(scopes[2], <<"x">>)
    /\ Len(lookups) = 1

\* the binding a reference to name resolves to: that of the innermost
\* frame binding the name, None when no frame binds it
RECURSIVE Resolve(_, _)
Resolve(sc, name) ==
    IF sc = <<>> THEN None
    ELSE IF Binds(sc[Len(sc)], name)
    THEN Some(CHOOSE e \in {sc[Len(sc)][i] : i \in 1..Len(sc[Len(sc)])} :
                  e.name = name)
    ELSE Resolve(SubSeq(sc, 1, Len(sc) - 1), name)

\* let x = 1; { let x; x; }
UninitializedShadowExample ==
    <<Let("x", Some(One)),
      StmtBlock(<<Let("x", None), StmtExpression(Use("x"))>>)>>

UninitializedUseOfX ==
    ErrResult(UninitializedVariable(<<"x">>, UseName("x").line,
                                    UseName("x").column))

\* C15: a Variable reference resolves to the binding of the innermost
\* frame that binds its name: bound nowhere, analyze returns the
\* undefined-variable error; resolved to an uninitialized binding (as in
\* `{ let x; x; }`, also under an outer initialized x), the
\* uninitialized-use error; otherwise the reference is accepted.
C15_VariableResolution ==
    /\ [][AtExpression("Variable") =>
            IF Resolve(scopes, work[1].node.name.lexeme) = None
            THEN /\ apc' = "done"
                 /\ a_result' = ErrResult(VariableNotFound(
                                    work[1].node.name.lexeme,
                                    work[1].node.name.line,
                                    work[1].node.name.column))
            ELSE IF ~Resolve(scopes,
                             work[1].node.name.lexeme)[1].is_initialized
            THEN /\ apc' = "done"
                 /\ a_result' = ErrResult(UninitializedVariable(
                                    work[1].node.name.lexeme,
                                    work[1].node.name.line,
                                    work[1].node.name.column))
            ELSE /\ apc' = "analyze"
                 /\ work' = Tail(work)
                 /\ a_result' = a_result]_vars
    /\ []((/\ apc \in {"done", "panic"}
           /\ ast \in {UninitializedShadowExample,
                       <<UninitializedShadowExample[2]>>}) =>
              a_result = UninitializedUseOfX)

\* analyze has returned the uninitialized-use error for the x of
\* let x = 1; { let x; x; }
C15_Witness ==
    /\ apc = "done"
    /\ ast = UninitializedShadowExample
    /\ a_result = UninitializedUseOfX
    /\ lookups = <<[name |-> <<"x">>, frame |-> 2]>>

\* fn f(x) { x; }
ParameterUseExample ==
    <<StmtFunction(DeclName("f"), <<DeclName("x")>>,
                   StmtBlock(<<StmtExpression(Use("x"))>>))>>

\* C16: the parameters of a function are bound as initialized in the
\* function's own frame before its body is analyzed, so `fn f(x) { x; }`
\* is accepted with no undefined or uninitialized error.
C16_ParametersInitialized ==
    /\ (/\ apc = "analyze"
        /\ Len(ast) = 1
        /\ ast[1].stmt = "Function"
        /\ work = <<StatementItem(ast[1].body), EndScopeItem>>) =>
           \A p \in 1..Len(ast[1].parameters) :
               \E i \in 1..Len(CurrentScope) :
                   /\ CurrentScope[i].name = ast[1].parameters[p].lexeme
                   /\ CurrentScope[i].is_initialized
    /\ (apc \in {"done", "panic"} /\ ast = ParameterUseExample) =>
          a_result = [kind |-> "Ok"]

UndefinedUseOfX ==
    ErrResult(VariableNotFound(<<"x">>, UseName("x").line,
                               UseName("x").column))

\* C17: an assignment never aborts analyze and never declares its target:
\* `x = 1;` with x bound nowhere returns the undefined-variable error and
\* leaves the scopes as they were, and `let x; x = 1;` returns a result
\* (Ok or the uninitialized-variable error).
C17_AssignResolvesTarget ==
    /\ apc # "panic"
    /\ (apc = "done" /\ ast = <<Set("x", One)>>) =>
          /\ a_result = UndefinedUseOfX
          /\ scopes = new_scopes
    /\ (apc = "done" /\ ast = <<Let("x", None), Set("x", One)>>) =>
          a_result \in {[kind |-> "Ok"],
                        ErrResult(UninitializedVariable(<<"x">>,
                            UseName("x").line, UseName("x").column))}

\* the tokens of `a = b = 1;`
AssignChainExample == MkTokens(AssignmentChain(<<"a", "b">>))

\* C18: a bare identifier followed by `=` parses to an Assign node naming
\* it, grouping to the right: `a = b = 1;` gives
\* Expression(Assign(a, Assign(b, Literal 1))).
C18_AssignRightAssociative ==
    (ppc \in {"done", "panic"} /\ p_tokens = AssignChainExample) =>
        result = ResultOk(<<StmtExpression(
                     Assign(p_tokens[1],
                            Assign(p_tokens[3], NumberLiteral("1"))))>>)

\* the Literal node of a literal token
LiteralOf(item) ==
    CASE item = IFalse -> Literal(LitBoolean(FALSE))
      [] item = ITrue -> Literal(LitBoolean(TRUE))
      [] item = INil -> Literal(LitNil)
      [] item = INum("1") -> NumberLiteral("1")
      [] item = IStr -> Literal(LitString(IStr.l))

AdmissibleKinds ==
    <<"False", "True", "Nil", "Number", "String", "Identifier", "LeftParen">>

\* C19: as a statement `<token> ;`, each of false, true, nil, a number and
\* a string parses to its Literal node and a bare identifier to a Variable
\* node; `( 1 ) ;` parses to the Grouping of Literal 1; a token that starts
\* no primary is refused with the unexpected-token error that lists the
\* admissible kinds.
C19_PrimaryForms ==
    /\ \A t \in {IFalse, ITrue, INil, INum("1"), IStr} :
          (ppc \in {"done", "panic"} /\ p_tokens = MkTokens(<<t, ISemi>>)) =>
              result = ResultOk(<<StmtExpression(LiteralOf(t))>>)
    /\ (ppc \in {"done", "panic"}
          /\ p_tokens = MkTokens(<<IId("x"), ISemi>>)) =>
              result = ResultOk(<<StmtExpression(Variable(p_tokens[1]))>>)
    /\ (ppc \in {"done", "panic"}
          /\ p_tokens = MkTokens(<<ILParen, INum("1"), IRParen, ISemi>>)) =>
              result = ResultOk(<<StmtExpression(
                                      Grouping(NumberLiteral("1")))>>)
    /\ \A t \in {IRParen, ISemi, IPlus, IEqual, IRBrace, IComma} :
          (ppc \in {"done", "panic"} /\ p_tokens = MkTokens(<<t, ISemi>>)) =>
              /\ result.kind = "Err"
              /\ result.error.error = "UnexpectedToken"
              /\ result.error.token = p_tokens[1]
              /\ result.error.expected = AdmissibleKinds

CallShapes ==
    Callees \X (SeqsUpTo(CallArguments, MaxCalls) \ {<<>>})

CallTokenInputs ==
    {MkTokens(CallStatement(shape[1], shape[2])) : shape \in CallShapes}

\* the callee under the calls of e, their argument lists and their paren
\* tokens, innermost call first
RECURSIVE CalleeOf(_)
CalleeOf(e) == IF e.expr = "Call" THEN CalleeOf(e.callee) ELSE e

RECURSIVE ArgumentsOf(_)
ArgumentsOf(e) ==
    IF e.expr = "Call" THEN Append(ArgumentsOf(e.callee), e.arguments)
    ELSE <<>>

RECURSIVE ParensOf(_)
ParensOf(e) ==
    IF e.expr = "Call" THEN Append(ParensOf(e.callee), e.paren) ELSE <<>>

\* the index in p_tokens of the closing parenthesis of the k-th list
ClosingParen(lists, k) == 1 + Len(ArgumentLists(SubSeq(lists, 1, k)))

ExpectedCallee(callee) ==
    IF callee.t = "Identifier" THEN Variable(p_tokens[1])
    ELSE IF callee.t = "Number"
    THEN Literal(LitNumber(F64ToString(callee.l)))
    ELSE Literal(LitString(callee.l))

\* C20: a primary followed by n >= 1 argument lists and `;` parses to one
\* Expression statement of n nested Call nodes over that primary, the k-th
\* holding the arguments of the k-th list in order and that list's closing
\* parenthesis token.
C20_CallsNest ==
    (ppc \in {"done", "panic"} /\ p_tokens \in CallTokenInputs) =>
        LET shape == CHOOSE sh \in CallShapes :
                         p_tokens = MkTokens(CallStatement(sh[1], sh[2]))
            lists == shape[2]
        IN  /\ ppc = "done"
            /\ result.kind = "Ok"
            /\ Len(result.statements) = 1
            /\ result.statements[1].stmt = "Expression"
            /\ CalleeOf(result.statements[1].expression)
                  = ExpectedCallee(shape[1])
            /\ ArgumentsOf(result.statements[1].expression)
                  = [k \in 1..Len(lists) |->
                        [i \in 1..Len(lists[k]) |->
                            Literal(LitNumber(F64ToString(lists[k][i].l)))]]
            /\ ParensOf(result.statements[1].expression)
                  = [k \in 1..Len(lists) |-> p_tokens[ClosingParen(lists, k)]]

\* the closing parenthesis of a list of n entries that opens at token 2 or 3
ListEnd(opening, n) == opening + 2 * n

AtCapAccepted ==
    /\ p_tokens = MkTokens(LongCall(MAX_ARGS)) =>
          /\ result.kind = "Ok"
          /\ Len(result.statements) = 1
          /\ result.statements[1].stmt = "Expression"
          /\ result.statements[1].expression.expr = "Call"
          /\ Len(result.statements[1].expression.arguments) = MAX_ARGS
    /\ p_tokens = MkTokens(LongFunction(MAX_PARAMS)) =>
          /\ result.kind = "Ok"
          /\ Len(result.statements) = 1
          /\ result.statements[1].stmt = "Function"
          /\ Len(result.statements[1].parameters) = MAX_PARAMS

OverCapReported ==
    /\ p_tokens = MkTokens(LongCall(MAX_ARGS + 1)) =>
          /\ result.kind = "Err"
          /\ result.error.error = "TooManyArguments"
          /\ current >= ListEnd(1, MAX_ARGS + 1)
    /\ p_tokens = MkTokens(LongFunction(MAX_PARAMS + 1)) =>
          /\ result.kind = "Err"
          /\ result.error.message.text
                = "Cannot have more than 255 parameters!"
          /\ current >= ListEnd(2, MAX_PARAMS + 1)

\* C21: a call with exactly 255 arguments and a function with exactly 255
\* parameters are accepted with all their entries; with 256 entries parse
\* returns the too-many diagnostic (TooManyArguments for the call), without
\* a panic, and with the cursor at or after the list's closing parenthesis.
C21_ListsCappedAt255 ==
    (ppc \in {"done", "panic"}
        /\ p_tokens \in {MkTokens(items) : items \in CapInputs}) =>
        /\ ppc = "done"
        /\ AtCapAccepted
        /\ OverCapReported

LogicalTokenInputs == {MkTokens(items) : items \in LogicalInputs}

\* true or false and nil ;
LogicalExample == MkTokens(LogicalChain(<<IOr, IAnd>>))

IsOr(e) == e.expr = "Logical" /\ e.operator.token_type = "Or"

\* e is built of Logical nodes over literals only, grouped as the two
\* precedence levels and left associativity demand: no `or` is an operand
\* of an `and`, and no right operand is a chain of the same operator
RECURSIVE LogicalGrouped(_)
LogicalGrouped(e) ==
    IF e.expr = "Literal" THEN TRUE
    ELSE /\ e.expr = "Logical"
         /\ IF IsOr(e)
            THEN /\ LogicalGrouped(e.left)
                 /\ LogicalGrouped(e.right)
                 /\ ~IsOr(e.right)
            ELSE /\ e.operator.token_type = "And"
                 /\ LogicalGrouped(e.left)
                 /\ ~IsOr(e.left)
                 /\ e.right.expr = "Literal"

\* the literal nodes and operator tokens of e, left to right
RECURSIVE LogicalInOrder(_)
LogicalInOrder(e) ==
    IF e.expr = "Literal" THEN <<e>>
    ELSE LogicalInOrder(e.left) \o <<e.operator>> \o LogicalInOrder(e.right)

\* the same for the tokens 1..n of the input
LogicalTokensInOrder(n) ==
    [i \in 1..n |->
        IF i % 2 = 1 THEN LiteralOf(LogicalOperand((i + 1) \div 2))
        ELSE p_tokens[i]]

\* C22: `<literals joined by or / and>;` parses to one Expression statement
\* of Logical nodes (no Binary node) that keeps the tokens in order, with
\* `and` binding tighter than `or` and chains of one operator grouping left
\* to right; `true or false and nil;` gives
\* Logical(or, true, Logical(and, false, nil)).
C22_LogicalChains ==
    /\ (ppc \in {"done", "panic"} /\ p_tokens \in LogicalTokenInputs) =>
          /\ ppc = "done"
          /\ result.kind = "Ok"
          /\ Len(result.statements) = 1
          /\ result.statements[1].stmt = "Expression"
          /\ LogicalGrouped(result.statements[1].expression)
          /\ LogicalInOrder(result.statements[1].expression)
                = LogicalTokensInOrder(Len(p_tokens) - 2)
    /\ (ppc \in {"done", "panic"} /\ p_tokens = LogicalExample) =>
          result = ResultOk(<<StmtExpression(
                        Logical(Literal(LitBoolean(TRUE)), p_tokens[2],
                            Logical(Literal(LitBoolean(FALSE)), p_tokens[4],
                                    Literal(LitNil))))>>)

\* parse has returned Ok for `true or false and nil;`
C22_Witness ==
    /\ ppc = "done"
    /\ p_tokens = LogicalExample
    /\ result.kind = "Ok"

StatementTokenInputs == {MkTokens(items) : items \in StatementInputs}

FormOf(toks) ==
    CHOOSE form \in StatementForms : toks = MkTokens(StatementForm(form))

ExpressionOne == StmtExpression(NumberLiteral("1"))

\* the statement the form of StatementForm is to parse to; Stmt has no
\* Print, Break or Continue variant, those three are given by name only
ExpectedStatement(form) ==
    CASE form = "Print" ->
             [stmt |-> "Print", expression |-> NumberLiteral("1")]
      [] form = "Block" -> StmtBlock(<<ExpressionOne>>)
      [] form = "If" ->
             StmtIf(Literal(LitBoolean(TRUE)), ExpressionOne, None)
      [] form = "IfElse" ->
             StmtIf(Literal(LitBoolean(TRUE)), ExpressionOne,
                    Some(StmtExpression(NumberLiteral("2"))))
      [] form = "While" -> StmtWhile(Literal(LitBoolean(TRUE)), ExpressionOne)
      [] form = "Return" -> StmtReturn(p_tokens[1], Some(NumberLiteral("1")))
      [] form = "ReturnNothing" -> StmtReturn(p_tokens[1], None)
      [] form = "Break" -> [stmt |-> "Break"]
      [] form = "Continue" -> [stmt |-> "Continue"]
      [] form = "Function" ->
             StmtFunction(p_tokens[2], <<p_tokens[4]>>,
                          StmtBlock(<<ExpressionOne>>))
      [] form = "Variable" ->
             StmtVariable(p_tokens[2], Some(NumberLiteral("1")))
      [] form = "VariableNothing" -> StmtVariable(p_tokens[2], None)
      [] form = "Expression" -> ExpressionOne

\* C23: parse accepts one statement of every form and returns its variant:
\* print, block, if with and without else, while, return, break, continue,
\* function declaration, variable declaration, expression statement.
C23_EveryStatementForm ==
    (ppc \in {"done", "panic"} /\ p_tokens \in StatementTokenInputs) =>
        /\ ppc = "done"
        /\ result = ResultOk(<<ExpectedStatement(FormOf(p_tokens))>>)

\* { let x = 1; } x;
BlockThenUseExample ==
    <<StmtBlock(<<Let("x", Some(One))>>), StmtExpression(Use("x"))>>

\* fn f(x) {} x;
FunctionThenUseExample ==
    <<StmtFunction(DeclName("f"), <<DeclName("x")>>, StmtBlock(<<>>)),
      StmtExpression(Use("x"))>>

\* let x = 1; { let x; } x;
ShadowThenUseExample ==
    <<Let("x", Some(One)), StmtBlock(<<Let("x", None)>>),
      StmtExpression(Use("x"))>>

\* the outcomes of the three programs
FrameEndsWithBlock ==
    /\ (apc \in {"done", "panic"}
            /\ ast \in {BlockThenUseExample, FunctionThenUseExample}) =>
          /\ apc = "done"
          /\ a_result = UndefinedUseOfX
    /\ (apc \in {"done", "panic"} /\ ast = ShadowThenUseExample) =>
          /\ apc = "done"
          /\ a_result = [kind |-> "Ok"]
          /\ lookups = <<[name |-> <<"x">>, frame |-> 1]>>

\* a step at the end of a block or function body drops the innermost frame
\* with all its bindings and nothing else; any other step leaves the frames
\* below the innermost one as they are
FrameDiscipline ==
    IF apc = "analyze" /\ work # <<>> /\ work[1].item = "end_scope"
    THEN scopes' = SubSeq(scopes, 1, Len(scopes) - 1)
    ELSE /\ Len(scopes') >= Len(scopes)
         /\ \A f \in 1..(Len(scopes) - 1) : scopes'[f] = scopes[f]

\* C24: a frame lives exactly as long as its block or function body: a name
\* declared in a block, or a parameter, is undefined after it
\* (`{ let x = 1; } x;` fails with the undefined-variable error), and an
\* outer binding shadowed in the block is the one a later use resolves to.
C24_FrameLivesWithBlock ==
    []FrameEndsWithBlock /\ [][FrameDiscipline]_vars

\* analyze has returned the error for the use of x in `{ let x = 1; } x;`
C24_Witness ==
    /\ ast = BlockThenUseExample
    /\ apc = "done"
    /\ a_result.kind = "Err"

RECURSIVE PendingEndScopes(_)
\* the end_scope calls still to come: one for every Block or Function arm
\* that has begun its scope and not returned
PendingEndScopes(w) ==
    IF w = <<>> THEN 0
    ELSE (IF Head(w).item = "end_scope" THEN 1 ELSE 0)
             + PendingEndScopes(Tail(w))

\* analyze is between two top-level statements, or behind the last one
BetweenTopLevelStatements ==
    /\ apc = "analyze"
    /\ \E k \in 0..Len(ast) :
          work = StatementItems(SubSeq(ast, k + 1, Len(ast)))

ScopeDepth ==
    /\ scopes # <<>>
    /\ a_result # ErrResult(NoActiveScope)
    /\ apc = "analyze" => Len(scopes) = 1 + PendingEndScopes(work)
    /\ BetweenTopLevelStatements => Len(scopes) = 1
    /\ (apc = "done" /\ a_result.kind = "Ok") => Len(scopes) = 1

\* a frame is pushed only by a Block or Function arm and popped only by the
\* end_scope of the arm that pushed it last: the depth moves by one frame
ScopeNesting ==
    LET at == IF apc = "analyze" /\ work # <<>> THEN work[1]
              ELSE [item |-> "none"]
    IN  /\ Len(scopes') > Len(scopes) =>
              /\ Len(scopes') = Len(scopes) + 1
              /\ at.item = "statement"
              /\ at.node.stmt \in {"Block", "Function"}
        /\ Len(scopes') < Len(scopes) =>
              /\ Len(scopes') = Len(scopes) - 1
              /\ at.item = "end_scope"

\* C25: the scope stack is never empty and NoActiveScope is never
\* returned; pushes and pops are strictly nested; while analyze runs the
\* depth is one more than the number of open blocks and function bodies, so
\* a statement that was analyzed leaves the depth as it found it, and the
\* depth is 1 between top-level statements and when analyze returns Ok.
C25_ScopeStackBalanced ==
    []ScopeDepth /\ [][ScopeNesting]_vars

\* analyze is back at depth 1 behind a block, with a statement still to come
C25_Witness ==
    /\ apc = "analyze"
    /\ Len(ast) = 2
    /\ ast[1].stmt = "Block"
    /\ work = StatementItems(SubSeq(ast, 2, 2))
    /\ Len(scopes) = 1

FunctionX(body) == StmtFunction(DeclName("x"), <<>>, StmtBlock(body))

\* fn x() {} x;     fn x() { x; }     fn x() { x(1); }
FunctionReferenceExamples ==
    {<<FunctionX(<<>>), StmtExpression(Use("x"))>>,
     <<FunctionX(<<StmtExpression(Use("x"))>>)>>,
     <<FunctionX(<<StmtExpression(Call(Use("x"), ParenToken, <<One>>))>>)>>}

\* C26: a declared function's name can be referenced, as a variable or as
\* the callee of a call, later in the same scope and inside the function's
\* own body: analyze returns Ok, with no undefined- or
\* uninitialized-variable error.
C26_FunctionNameUsable ==
    (apc \in {"done", "panic"} /\ ast \in FunctionReferenceExamples) =>
        /\ apc = "done"
        /\ a_result = [kind |-> "Ok"]

\* let x = x;
SelfInitializedExample == <<Let("x", Some(Use("x")))>>

\* let x;  let x = x;     (x is redeclared, and the x of the initializer
\* would resolve to the uninitialized first x)
RedeclaredWithBadInitializer ==
    <<Let("x", None), Let("x", Some(Use("x")))>>

\* C27: a Variable declaration with an initializer binds its name, as
\* initialized, before the initializer is analyzed: the initializer's
\* lookups see the new binding (`let x = x;` with no outer x returns Ok), and
\* a redeclaration is reported before any error inside the initializer.
C27_DefineBeforeInitializer ==
    /\ (apc = "analyze" /\ work # <<>> /\ work[1].item = "expression"
            /\ Len(ast) = 1 /\ ast[1].stmt = "Variable"
            /\ ast[1].initializer # None) =>
          LET g == get(scopes, ast[1].name.lexeme)
          IN  /\ g.frame = 1
              /\ g.entry = Some(VariableEntry(ast[1].name.lexeme, TRUE))
    /\ (apc \in {"done", "panic"} /\ ast = SelfInitializedExample) =>
          /\ apc = "done"
          /\ a_result = [kind |-> "Ok"]
          /\ lookups = <<[name |-> <<"x">>, frame |-> 1]>>
    /\ (apc \in {"done", "panic"} /\ ast = RedeclaredWithBadInitializer) =>
          /\ apc = "done"
          /\ a_result = ErrResult(VariableRedeclaration(<<"x">>))
          /\ lookups = <<>>

\* analyze has returned Ok for `let x = x;`
C27_Witness ==
    /\ ast = SelfInitializedExample
    /\ apc = "done"
    /\ a_result.kind = "Ok"

=============================================================================
